---- MODULE Spec2Model ----
(***************************************************************************)
(* Model of the Magma Access Gateway machine charm (src/src/charm.py).     *)
(*                                                                         *)
(* Strings are sequences of tokens, so that the parsers of the Python      *)
(* standard library the charm relies on (str.split, ipaddress.ip_network,  *)
(* ipaddress.ip_address, json.loads) are computed on the text and are not  *)
(* assumed.  A token is a run of decimal digits (with its value), a run of *)
(* hexadecimal digits holding a letter (with its value), a word, or a      *)
(* punctuation mark.  Python objects are records tagged with their type.   *)
(***************************************************************************)
EXTENDS Integers, Sequences, FiniteSets, TLC

(***************************************************************************)
(* Tokens and text                                                         *)
(***************************************************************************)
Tok(k, s, n) == [k |-> k, s |-> s, n |-> n]

\* a run of decimal digits, e.g. "24"
D(n) == Tok("d", "", n)

\* a run of hexadecimal digits with at least one letter, e.g. "fe80"
H(n) == Tok("h", "", n)

\* a word (letters and other characters that are no punctuation below)
W(s) == Tok("w", s, 0)

\* punctuation: "." ":" "::" "/" "[" "]" "{" "}" "," "-" "--" and "q", the
\* double quote
Y(s) == Tok("y", s, 0)

IsD(t) == t.k = "d"

IsMark(t, s) == t.k = "y" /\ t.s = s

\* str.split(sep): the pieces between the occurrences of the mark sep
RECURSIVE SplitFrom(_, _, _, _)
SplitFrom(text, sep, i, piece) ==
    IF i > Len(text) THEN <<piece>>
    ELSE IF IsMark(text[i], sep)
         THEN <<piece>> \o SplitFrom(text, sep, i + 1, <<>>)
         ELSE SplitFrom(text, sep, i + 1, Append(piece, text[i]))

Split(text, sep) == SplitFrom(text, sep, 1, <<>>)

\* sep in text
HasMark(text, sep) == \E i \in 1..Len(text) : IsMark(text[i], sep)

(***************************************************************************)
(* Python values                                                           *)
(***************************************************************************)
PyVal(type, text, n, items) ==
    [type |-> type, text |-> text, n |-> n, items |-> items]

PyStr(text) == PyVal("str", text, 0, <<>>)

PyInt(n) == PyVal("int", <<>>, n, <<>>)

PyBool(b) == PyVal("bool", <<>>, IF b THEN 1 ELSE 0, <<>>)

PyFloat(text) == PyVal("float", text, 0, <<>>)

PyNone == PyVal("none", <<>>, 0, <<>>)

PyList(items) == PyVal("list", <<>>, 0, items)

PyDict(items) == PyVal("dict", <<>>, 0, items)

\* bool(v): the truth value Python's "if v" and "not v" use
Truthy(v) ==
    CASE v.type = "str" -> v.text # <<>>
      [] v.type \in {"int", "bool"} -> v.n # 0
      [] v.type = "float" -> TRUE
      [] v.type \in {"list", "dict"} -> v.items # <<>>
      [] OTHER -> FALSE

(***************************************************************************)
(* The ipaddress module of the Python standard library, as far as the      *)
(* charm uses it.  Scope ids ("%eth0") are outside the token alphabet.     *)
(***************************************************************************)
IPV4LENGTH == 32

IPV6LENGTH == 128

\* IPv4Address._parse_octet: decimal digits only, at most 255
IsOctet(piece) == Len(piece) = 1 /\ IsD(piece[1]) /\ piece[1].n <= 255

\* IPv4Address._ip_from_string: exactly four octets separated by "."
IPv4FromString(text) ==
    LET octets == Split(text, ".")
    IN  IF text # <<>> /\ Len(octets) = 4 /\ \A i \in 1..4 : IsOctet(octets[i])
        THEN [ok |-> TRUE, ip |-> [i \in 1..4 |-> octets[i][1].n]]
        ELSE [ok |-> FALSE, ip |-> <<>>]

\* IPv6Address._parse_hextet: at most four hexadecimal digits
IsHextet(piece) ==
    /\ Len(piece) = 1
    /\ \/ piece[1].k = "d" /\ piece[1].n <= 9999
       \/ piece[1].k = "h" /\ piece[1].n <= 65535

\* IPv6Address._ip_from_string: split on ":", an embedded IPv4 tail counts
\* for two groups, at most one "::", eight groups without it and at most
\* seven with it
IPv6FromString(text) ==
    LET raw == Split(text, ":")
        tailV4 == Len(raw) >= 3 /\ HasMark(raw[Len(raw)], ".")
        parts == IF tailV4
                 THEN SubSeq(raw, 1, Len(raw) - 1) \o <<<<D(0)>>, <<D(0)>>>>
                 ELSE raw
        n == Len(parts)
        skips == {i \in 2..(n - 1) : parts[i] = <<>>}
        skip == CHOOSE i \in skips : TRUE
        hi == IF parts[1] = <<>> THEN skip - 2 ELSE skip - 1
        lo == IF parts[n] = <<>> THEN n - skip - 1 ELSE n - skip
        shape == IF skips # {}
                 THEN /\ Cardinality(skips) = 1
                      /\ (parts[1] = <<>> => skip = 2)
                      /\ (parts[n] = <<>> => skip = n - 1)
                      /\ 8 - (hi + lo) >= 1
                 ELSE n = 8 /\ parts[1] # <<>> /\ parts[n] # <<>>
    IN  /\ text # <<>>
        /\ Len(raw) >= 3
        /\ (tailV4 => IPv4FromString(raw[Len(raw)]).ok)
        /\ n <= 9
        /\ shape
        /\ \A i \in 1..n : parts[i] # <<>> => IsHextet(parts[i])

\* the netmask of prefix length p, as four octets
RECURSIVE Pow2(_)
Pow2(e) == IF e = 0 THEN 1 ELSE 2 * Pow2(e - 1)

MaskOctet(p, i) ==
    LET b == p - 8 * (i - 1)
        bits == IF b < 0 THEN 0 ELSE IF b > 8 THEN 8 ELSE b
    IN  256 - Pow2(8 - bits)

\* _BaseV4._prefix_from_prefix_string / _BaseV6: decimal digits, 0..max
PrefixFromPrefixString(mask, max) ==
    IF Len(mask) = 1 /\ IsD(mask[1]) /\ mask[1].n <= max
    THEN [ok |-> TRUE, prefixlen |-> mask[1].n]
    ELSE [ok |-> FALSE, prefixlen |-> 0]

\* _BaseV4._prefix_from_ip_string: a dotted netmask, else a dotted hostmask
PrefixFromIpString(mask) ==
    LET a == IPv4FromString(mask)
        nets == {p \in 0..IPV4LENGTH : \A i \in 1..4 : a.ip[i] = MaskOctet(p, i)}
        hosts == {p \in 0..IPV4LENGTH :
                    \A i \in 1..4 : 255 - a.ip[i] = MaskOctet(p, i)}
    IN  IF ~a.ok THEN [ok |-> FALSE, prefixlen |-> 0]
        ELSE IF nets # {} THEN [ok |-> TRUE, prefixlen |-> CHOOSE p \in nets : TRUE]
        ELSE IF hosts # {} THEN [ok |-> TRUE, prefixlen |-> CHOOSE p \in hosts : TRUE]
        ELSE [ok |-> FALSE, prefixlen |-> 0]

NoNetwork == [ok |-> FALSE, version |-> 0, prefixlen |-> 0]

\* IPv4Network(address, strict=False): "addr" or "addr/mask"; without a
\* mask the prefix length is the full length of the address
IPv4Network(text) ==
    LET addr == Split(text, "/")
        mask == IF PrefixFromPrefixString(addr[2], IPV4LENGTH).ok
                THEN PrefixFromPrefixString(addr[2], IPV4LENGTH)
                ELSE PrefixFromIpString(addr[2])
    IN  IF Len(addr) > 2 \/ ~IPv4FromString(addr[1]).ok THEN NoNetwork
        ELSE IF Len(addr) = 1
             THEN [ok |-> TRUE, version |-> 4, prefixlen |-> IPV4LENGTH]
        ELSE IF mask.ok
             THEN [ok |-> TRUE, version |-> 4, prefixlen |-> mask.prefixlen]
        ELSE NoNetwork

\* IPv6Network(address, strict=False)
IPv6Network(text) ==
    LET addr == Split(text, "/")
        mask == PrefixFromPrefixString(addr[2], IPV6LENGTH)
    IN  IF Len(addr) > 2 \/ ~IPv6FromString(addr[1]) THEN NoNetwork
        ELSE IF Len(addr) = 1
             THEN [ok |-> TRUE, version |-> 6, prefixlen |-> IPV6LENGTH]
        ELSE IF mask.ok
             THEN [ok |-> TRUE, version |-> 6, prefixlen |-> mask.prefixlen]
        ELSE NoNetwork

\* ipaddress.ip_network(address, strict=False) of a string; ok = FALSE is
\* ValueError
ip_network(text) ==
    IF IPv4Network(text).ok THEN IPv4Network(text) ELSE IPv6Network(text)

\* ipaddress.ip_address(address): an int is an address by its value (every
\* modelled number is below 2^32), a string must be a bare address, and
\* any other object is converted with str() and never reads as an address;
\* version 0 is ValueError
ip_address(v) ==
    CASE v.type \in {"int", "bool"} -> IF v.n >= 0 THEN 4 ELSE 0
      [] v.type = "str" ->
            IF HasMark(v.text, "/") THEN 0
            ELSE IF IPv4FromString(v.text).ok THEN 4
            ELSE IF IPv6FromString(v.text) THEN 6
            ELSE 0
      [] OTHER -> 0

\* _is_valid_ipv4_address as it would be if the host-only prefix length
\* were not rejected
Ipv4AddressWithAnyPrefix(text) ==
    LET ip == ip_network(text)
    IN  ip.ok /\ ip.version = 4

\* _is_valid_ipv4_address
_is_valid_ipv4_address(text) ==
    LET ip == ip_network(text)
    IN  ip.ok /\ ip.version = 4 /\ ip.prefixlen # 32

\* _is_valid_ipv4_gateway
_is_valid_ipv4_gateway(text) == ip_address(PyStr(text)) = 4

\* _is_valid_ipv6_address
_is_valid_ipv6_address(text) ==
    LET ip == ip_network(text)
    IN  ip.ok /\ ip.version = 6 /\ ip.prefixlen # 128

\* _is_valid_ipv6_gateway
_is_valid_ipv6_gateway(text) == ip_address(PyStr(text)) = 6

(***************************************************************************)
(* json.loads, on the token text (white space is not part of the text)     *)
(***************************************************************************)
JsonFail == [ok |-> FALSE, val |-> PyNone, next |-> 0]

JsonOk(val, next) == [ok |-> TRUE, val |-> val, next |-> next]

\* position of the double quote that closes a string opened before i, or 0
RECURSIVE ClosingQuote(_, _)
ClosingQuote(t, i) ==
    IF i > Len(t) THEN 0
    ELSE IF IsMark(t[i], "q") THEN i
    ELSE ClosingQuote(t, i + 1)

\* the scanner of json.decoder: the value that starts at position i
RECURSIVE ScanValue(_, _), ScanItems(_, _, _), ScanMembers(_, _, _)
ScanValue(t, i) ==
    IF i > Len(t) THEN JsonFail
    ELSE IF IsMark(t[i], "q")
         THEN IF ClosingQuote(t, i + 1) = 0 THEN JsonFail
              ELSE JsonOk(PyStr(SubSeq(t, i + 1, ClosingQuote(t, i + 1) - 1)),
                          ClosingQuote(t, i + 1) + 1)
    ELSE IF IsMark(t[i], "[")
         THEN IF i < Len(t) /\ IsMark(t[i + 1], "]")
              THEN JsonOk(PyList(<<>>), i + 2)
              ELSE ScanItems(t, i + 1, <<>>)
    ELSE IF IsMark(t[i], "{")
         THEN IF i < Len(t) /\ IsMark(t[i + 1], "}")
              THEN JsonOk(PyDict(<<>>), i + 2)
              ELSE ScanMembers(t, i + 1, <<>>)
    ELSE IF IsMark(t[i], "-")
         THEN IF i < Len(t) /\ IsD(t[i + 1])
              THEN IF i + 3 <= Len(t) /\ IsMark(t[i + 2], ".") /\ IsD(t[i + 3])
                   THEN JsonOk(PyFloat(SubSeq(t, i, i + 3)), i + 4)
                   ELSE JsonOk(PyInt(0 - t[i + 1].n), i + 2)
              ELSE JsonFail
    ELSE IF IsD(t[i])
         THEN IF i + 2 <= Len(t) /\ IsMark(t[i + 1], ".") /\ IsD(t[i + 2])
              THEN JsonOk(PyFloat(SubSeq(t, i, i + 2)), i + 3)
              ELSE JsonOk(PyInt(t[i].n), i + 1)
    ELSE IF t[i] = W("null") THEN JsonOk(PyNone, i + 1)
    ELSE IF t[i] = W("true") THEN JsonOk(PyBool(TRUE), i + 1)
    ELSE IF t[i] = W("false") THEN JsonOk(PyBool(FALSE), i + 1)
    ELSE JsonFail

\* the items of an array after "[" : value ("," value)* "]"
ScanItems(t, i, acc) ==
    LET v == ScanValue(t, i)
    IN  IF ~v.ok \/ v.next > Len(t) THEN JsonFail
        ELSE IF IsMark(t[v.next], ",")
             THEN ScanItems(t, v.next + 1, Append(acc, v.val))
        ELSE IF IsMark(t[v.next], "]")
             THEN JsonOk(PyList(Append(acc, v.val)), v.next + 1)
        ELSE JsonFail

\* the members of an object after "{" : string ":" value ("," ...)* "}";
\* a dict iterates over its keys, so items holds the keys
ScanMembers(t, i, acc) ==
    LET k == ScanValue(t, i)
        v == ScanValue(t, k.next + 1)
    IN  IF ~k.ok \/ k.val.type # "str" \/ k.next > Len(t) THEN JsonFail
        ELSE IF ~IsMark(t[k.next], ":") THEN JsonFail
        ELSE IF ~v.ok \/ v.next > Len(t) THEN JsonFail
        ELSE IF IsMark(t[v.next], ",")
             THEN ScanMembers(t, v.next + 1, Append(acc, k.val))
        ELSE IF IsMark(t[v.next], "}")
             THEN JsonOk(PyDict(Append(acc, k.val)), v.next + 1)
        ELSE JsonFail

\* json.loads(s): one value and nothing after it; ok = FALSE is
\* json.JSONDecodeError
json_loads(text) ==
    LET r == ScanValue(text, 1)
    IN  IF r.ok /\ r.next = Len(text) + 1 THEN [ok |-> TRUE, val |-> r.val]
        ELSE [ok |-> FALSE, val |-> PyNone]

(***************************************************************************)
(* The charm: configuration, validation, install arguments                 *)
(***************************************************************************)
\* the keys of the configuration, in the order the mapping lists them
ConfigKeys ==
    << "skip-networking", "dns", "sgi", "s1",
       "sgi-ipv4-address", "sgi-ipv4-gateway",
       "sgi-ipv6-address", "sgi-ipv6-gateway",
       "s1-ipv4-address", "s1-ipv6-address" >>

\* a word of text and a fixed string
Word(s) == <<W(s)>>

Str(s) == PyStr(Word(s))

\* dict.get(key): None when the key is not set
Get(cfg, key) == IF key \in DOMAIN cfg THEN cfg[key] ELSE PyNone

\* logging's "%s <rest>" % arg
Fmt(arg, rest) == arg \o Word(rest)

Passed == [ok |-> TRUE, log |-> <<>>]

Failed(message) == [ok |-> FALSE, log |-> <<message>>]

\* _is_valid_interface as it would be if the renamed interface were not
\* looked for
InterfaceByConfiguredNameOnly(cfg, ifaces, interface_name, new_interface_name) ==
    LET interface == Get(cfg, interface_name)
    IN  IF ~Truthy(interface)
        THEN Failed(Fmt(Word(interface_name), " interface name is required"))
        ELSE IF interface.text \notin ifaces
        THEN Failed(Fmt(interface.text, " interface not found"))
        ELSE Passed

\* _is_valid_interface(interface_name, new_interface_name), with
\* netifaces.interfaces() = ifaces
_is_valid_interface(cfg, ifaces, interface_name, new_interface_name) ==
    LET interface == Get(cfg, interface_name)
    IN  IF ~Truthy(interface)
        THEN Failed(Fmt(Word(interface_name), " interface name is required"))
        ELSE IF interface.text \notin ifaces /\ Word(new_interface_name) \notin ifaces
        THEN Failed(Fmt(interface.text, " interface not found"))
        ELSE Passed

\* _is_valid_sgi_interface_addressing_configuration
_is_valid_sgi_interface_addressing_configuration(cfg) ==
    LET ipv4_address == Get(cfg, "sgi-ipv4-address")
        ipv4_gateway == Get(cfg, "sgi-ipv4-gateway")
        ipv6_address == Get(cfg, "sgi-ipv6-address")
        ipv6_gateway == Get(cfg, "sgi-ipv6-gateway")
    IN  IF /\ ~Truthy(ipv4_address) /\ ~Truthy(ipv4_gateway)
           /\ ~Truthy(ipv6_address) /\ ~Truthy(ipv6_gateway)
        THEN Passed
        ELSE IF /\ Truthy(ipv4_address) \/ Truthy(ipv4_gateway)
                /\ ~(Truthy(ipv4_address) /\ Truthy(ipv4_gateway))
        THEN Failed(Word("Both IPv4 address and gateway required for interface sgi"))
        ELSE IF /\ Truthy(ipv6_address) \/ Truthy(ipv6_gateway)
                /\ ~(Truthy(ipv6_address) /\ Truthy(ipv6_gateway))
        THEN Failed(Word("Both IPv6 address and gateway required for interface sgi"))
        ELSE IF Truthy(ipv6_address) /\ ~Truthy(ipv4_address)
        THEN Failed(Word("Pure IPv6 configuration is not supported for interface sgi"))
        ELSE IF Truthy(ipv4_address) /\ ~_is_valid_ipv4_address(ipv4_address.text)
        THEN Failed(Word("Invalid IPv4 address and netmask for interface sgi"))
        ELSE IF Truthy(ipv4_gateway) /\ ~_is_valid_ipv4_gateway(ipv4_gateway.text)
        THEN Failed(Word("Invalid IPv4 gateway for interface sgi"))
        ELSE IF Truthy(ipv6_address) /\ ~_is_valid_ipv6_address(ipv6_address.text)
        THEN Failed(Word("Invalid IPv6 address and netmask for interface sgi"))
        ELSE IF Truthy(ipv6_gateway) /\ ~_is_valid_ipv6_gateway(ipv6_gateway.text)
        THEN Failed(Word("Invalid IPv6 gateway for interface sgi"))
        ELSE Passed

\* _is_valid_s1_interface_addressing_configuration
_is_valid_s1_interface_addressing_configuration(cfg) ==
    LET ipv4_address == Get(cfg, "s1-ipv4-address")
        ipv6_address == Get(cfg, "s1-ipv6-address")
    IN  IF ~Truthy(ipv4_address) /\ ~Truthy(ipv6_address)
        THEN Passed
        ELSE IF Truthy(ipv6_address) /\ ~Truthy(ipv4_address)
        THEN Failed(Word("Pure IPv6 configuration is not supported for interface s1"))
        ELSE IF Truthy(ipv4_address) /\ ~_is_valid_ipv4_address(ipv4_address.text)
        THEN Failed(Word("Invalid IPv4 address and netmask for interface s1"))
        ELSE IF Truthy(ipv6_address) /\ ~_is_valid_ipv6_address(ipv6_address.text)
        THEN Failed(Word("Invalid IPv6 address and netmask for interface s1"))
        ELSE Passed

\* _are_valid_dns(dns)
_are_valid_dns(dns) ==
    LET list_of_dns == json_loads(dns.text)
    IN  IF ~list_of_dns.ok THEN FALSE
        ELSE IF list_of_dns.val.type # "list" \/ ~Truthy(list_of_dns.val) THEN FALSE
        ELSE \A i \in 1..Len(list_of_dns.val.items) :
                ip_address(list_of_dns.val.items[i]) # 0

\* the rule of the dns option: _are_valid_dns and the warning of its caller
DnsConfiguration(cfg) ==
    IF _are_valid_dns(cfg["dns"]) THEN Passed
    ELSE Failed(Word("Invalid DNS configuration"))

\* "if not rule(): valid = False": valid after the next rule, with the
\* warnings logged so far
Then(valid, rule) ==
    [ok |-> IF ~rule.ok THEN FALSE ELSE valid.ok, log |-> valid.log \o rule.log]

\* "valid = rule()" in the place of "if not rule(): valid = False"
Overwriting(valid, rule) == [ok |-> rule.ok, log |-> valid.log \o rule.log]

\* "if not rule(): return False" in the place of "if not rule(): valid = False"
Returning(valid, rule) == IF ~valid.ok THEN valid ELSE rule

\* _is_configuration_valid as it would be if skip-networking were not
\* looked at
ValidationWithoutSkip(cfg, ifaces) ==
    Then(Then(Then(Then(_is_valid_interface(cfg, ifaces, "sgi", "eth0"),
                        _is_valid_interface(cfg, ifaces, "s1", "eth1")),
                   _is_valid_sgi_interface_addressing_configuration(cfg)),
              _is_valid_s1_interface_addressing_configuration(cfg)),
         DnsConfiguration(cfg))

\* _is_configuration_valid as it would be if the result of the s1 rule
\* were assigned to valid, as the result of the sgi rule is
ValidationOverwritingSgi(cfg, ifaces) ==
    IF Truthy(cfg["skip-networking"]) THEN Passed
    ELSE Then(Then(Then(Overwriting(_is_valid_interface(cfg, ifaces, "sgi", "eth0"),
                                    _is_valid_interface(cfg, ifaces, "s1", "eth1")),
                        _is_valid_sgi_interface_addressing_configuration(cfg)),
                   _is_valid_s1_interface_addressing_configuration(cfg)),
              DnsConfiguration(cfg))

\* _is_configuration_valid as it would be if it returned at the first rule
\* that fails
ValidationStoppingAtFirstFailure(cfg, ifaces) ==
    IF Truthy(cfg["skip-networking"]) THEN Passed
    ELSE Returning(Returning(Returning(Returning(
                _is_valid_interface(cfg, ifaces, "sgi", "eth0"),
                _is_valid_interface(cfg, ifaces, "s1", "eth1")),
                _is_valid_sgi_interface_addressing_configuration(cfg)),
                _is_valid_s1_interface_addressing_configuration(cfg)),
                DnsConfiguration(cfg))

\* _is_configuration_valid: the result and the warnings it logs, in order
_is_configuration_valid(cfg, ifaces) ==
    IF Truthy(cfg["skip-networking"]) THEN Passed
    ELSE Then(Then(Then(Then(_is_valid_interface(cfg, ifaces, "sgi", "eth0"),
                             _is_valid_interface(cfg, ifaces, "s1", "eth1")),
                        _is_valid_sgi_interface_addressing_configuration(cfg)),
                   _is_valid_s1_interface_addressing_configuration(cfg)),
              DnsConfiguration(cfg))

\* the keys of cfg other than those in popped, in the order of the mapping
RECURSIVE Items(_, _, _)
Items(cfg, popped, i) ==
    IF i > Len(ConfigKeys) THEN <<>>
    ELSE IF ConfigKeys[i] \in DOMAIN cfg /\ ConfigKeys[i] \notin popped
         THEN <<ConfigKeys[i]>> \o Items(cfg, popped, i + 1)
         ELSE Items(cfg, popped, i + 1)

\* "--<key>"
Flag(key) == PyStr(<<Y("--"), W(key)>>)

\* for key, value in config.items(): arguments.extend([f"--{key}", value])
RECURSIVE Extend(_, _)
Extend(cfg, keys) ==
    IF keys = <<>> THEN <<>>
    ELSE <<Flag(Head(keys)), cfg[Head(keys)]>> \o Extend(cfg, Tail(keys))

\* the elements list.extend takes from an iterable: the items of a list,
\* the keys of a dict, the pieces of a str
Iterate(v) ==
    IF v.type = "str" THEN [i \in 1..Len(v.text) |-> PyStr(<<v.text[i]>>)]
    ELSE v.items

\* _install_arguments; exc names the exception json.loads or list.extend
\* raises instead of returning
_install_arguments(cfg) ==
    LET dns == json_loads(cfg["dns"].text)
    IN  IF Truthy(cfg["skip-networking"])
        THEN [exc |-> "", arguments |-> <<Flag("no-reboot"), Flag("skip-networking")>>]
        ELSE IF ~dns.ok THEN [exc |-> "JSONDecodeError", arguments |-> <<>>]
        ELSE IF dns.val.type \notin {"list", "dict", "str"}
        THEN [exc |-> "TypeError", arguments |-> <<>>]
        ELSE [exc |-> "",
              arguments |-> <<Flag("no-reboot"), Flag("dns")>>
                              \o Iterate(dns.val)
                              \o Extend(cfg, Items(cfg, {"skip-networking", "dns"}, 1))]

(***************************************************************************)
(* Texts of the configuration values and of the host the model draws from  *)
(***************************************************************************)
Dotted(a, b, c, d) == <<D(a), Y("."), D(b), Y("."), D(c), Y("."), D(d)>>

Slash(n) == <<Y("/"), D(n)>>

Quoted(text) == <<Y("q")>> \o text \o <<Y("q")>>

\* "fe80::1"
Fe80 == <<H(65152), Y(":"), Y(":"), D(1)>>

\* the default of the dns option: ["8.8.8.8", "208.67.222.222"]
DefaultDns ==
    <<Y("[")>> \o Quoted(Dotted(8, 8, 8, 8)) \o <<Y(",")>>
        \o Quoted(Dotted(208, 67, 222, 222)) \o <<Y("]")>>

\* the configuration of a unit nobody configured: the options' defaults
DefaultConfig ==
    [k \in {"skip-networking", "dns"} |->
        IF k = "dns" THEN PyStr(DefaultDns) ELSE PyBool(FALSE)]

\* the lists netifaces.interfaces() returns: before the interfaces are
\* renamed, and after
HostInterfaces == {{Word("enp0s1"), Word("enp0s2")}, {Word("eth0"), Word("eth1")}}

\* the values an operator gives an option, one after the other
Values(key) ==
    CASE key = "skip-networking" -> {PyBool(TRUE), PyBool(FALSE)}
      [] key = "dns" ->
            {PyStr(DefaultDns), PyStr(Word("notjson")), PyStr(<<Y("["), D(1), Y("]")>>)}
      [] key = "sgi" -> {Str("enp0s1"), Str("nosuchinterface")}
      [] key = "s1" -> {Str("enp0s2")}
      [] key = "sgi-ipv4-address" ->
            {PyStr(<<>>), PyStr(Dotted(10, 0, 0, 2) \o Slash(24))}
      [] key = "sgi-ipv4-gateway" -> {PyStr(Dotted(10, 0, 0, 1))}
      [] key = "sgi-ipv6-address" -> {PyStr(Fe80 \o Slash(64))}
      [] OTHER -> {}

\* the exit codes of the install script: success, failure, killed
ReturnCodes == {0, 1, -9}

(***************************************************************************)
(* State                                                                   *)
(***************************************************************************)
VARIABLES
    config,          \* self.model.config: the options that are set
    interfaces,      \* netifaces.interfaces() of the host
    magmad_enabled,  \* systemctl is-enabled magma@magmad succeeds
    status,          \* self.unit.status
    status_found,    \* the status the last run of _on_install found
    log,             \* the warnings the last run of _on_install logged
    valid,           \* what _is_configuration_valid returned in that run
    arguments,       \* what _install_arguments returned in that run
    returncodes,     \* the exit code of the install script, if that run ran it
    calls,           \* the commands the last handler run started, in order
    uncaught,        \* the exception that escaped that run, or ""
    deferred,        \* that run called event.defer()
    magma_active,    \* systemctl is-active magma@magmad succeeds
    dirs,            \* the directories of the host that exist
    files,           \* the files of the host that exist, with their content
    announced,       \* the announcement the orchestrator handler last installed
    ops,             \* what that handler's last run did on the host, in order
    leader,          \* the unit is the leader of its application
    eth1,            \* the interface eth1 of the host and its IPv4 addresses
    lte_core,        \* what the unit published on the lte-core relation
    gateway_info,    \* the run of show_gateway_info.py in the last action
    post_install_checks, \* the post-install tool's run in the last action
    failure,         \* what the last action passed to event.fail, or ""
    results          \* what the last action passed to event.set_results

\* what the handlers of the start event and of the actions read and write
action_vars == <<gateway_info, post_install_checks, failure, results>>

lte_vars == <<leader, eth1, lte_core>>

service_vars == <<magma_active, dirs, files, announced, ops, lte_vars, action_vars>>

vars == <<config, interfaces, magmad_enabled, status, status_found, log, valid, arguments,
          calls, uncaught, returncodes, deferred, service_vars>>

Status(name, message) == [name |-> name, message |-> message]

MaintenanceStatus(message) == Status("maintenance", message)

BlockedStatus(message) == Status("blocked", message)

\* an argv of fixed words
Command(words) == [i \in 1..Len(words) |-> Str(words[i])]

IsEnabledCommand == Command(<<"systemctl", "is-enabled", "magma@magmad">>)

SnapInstallCommand ==
    Command(<<"snap", "install", "magma-access-gateway", "--classic", "--edge">>)

RebootCommand == Command(<<"shutdown", "--reboot", "+1">>)

\* install_magma_access_gateway: command.extend(self._install_arguments)
InstallCommand(args) == Command(<<"magma-access-gateway.install">>) \o args

\* subprocess.run(argv) raises TypeError unless every argument is a str
Runnable(argv) == \A i \in 1..Len(argv) : argv[i].type = "str"

\* a unit before its first event
Fresh ==
    /\ magmad_enabled = FALSE
    /\ status = MaintenanceStatus("")
    /\ status_found = MaintenanceStatus("")
    /\ log = <<>>
    /\ valid = "n/a"
    /\ arguments = <<>>
    /\ calls = <<>>
    /\ uncaught = ""
    /\ returncodes = <<>>
    /\ deferred = FALSE
    /\ magma_active = FALSE
    /\ dirs = {}
    /\ files = <<>>
    /\ announced = <<>>
    /\ ops = <<>>
    /\ leader = FALSE
    /\ eth1 = [present |-> FALSE, inet |-> <<>>]
    /\ lte_core = <<>>
    /\ gateway_info = <<>>
    /\ post_install_checks = <<>>
    /\ failure = ""
    /\ results = {}

Init ==
    /\ config = DefaultConfig
    /\ interfaces \in HostInterfaces
    /\ Fresh

\* what one run of a handler leaves behind
Ends(st, lg, vl, args, cl, exc) ==
    /\ status' = st
    /\ status_found' = status
    /\ log' = lg
    /\ valid' = vl
    /\ arguments' = args
    /\ calls' = cl
    /\ uncaught' = exc
    /\ deferred' = FALSE

\* the install script was not run
NotRun == returncodes' = <<>>

\* _on_install as it would be if it did not return after it set the status
\* of an invalid configuration
InstallWithoutReturn(checked, built, started) ==
    IF built.exc # ""
    THEN NotRun /\ Ends(MaintenanceStatus("Installing AGW"),
                        checked.log, "True", <<>>, started, built.exc)
    ELSE IF ~Runnable(InstallCommand(built.arguments))
    THEN NotRun /\ Ends(MaintenanceStatus("Installing AGW"),
                        checked.log, "True", built.arguments, started, "TypeError")
    ELSE \E returncode \in ReturnCodes :
            /\ returncodes' = <<returncode>>
            /\ IF returncode # 0
               THEN Ends(BlockedStatus("Installation script failed. See logs for details"),
                         checked.log, "True", built.arguments,
                         Append(started, InstallCommand(built.arguments)), "")
               ELSE Ends(MaintenanceStatus("Rebooting to apply changes"),
                         checked.log, "True", built.arguments,
                         started \o <<InstallCommand(built.arguments), RebootCommand>>, "")

\* _on_install as it would be if it rebooted whatever the install script
\* returned
InstallRebootingAlways(checked, built, started) ==
    IF ~checked.ok
    THEN NotRun /\ Ends(BlockedStatus("Configuration is invalid. Check logs for details"),
                        checked.log, "False", <<>>, started, "")
    ELSE IF built.exc # ""
    THEN NotRun /\ Ends(MaintenanceStatus("Installing AGW"),
                        checked.log, "True", <<>>, started, built.exc)
    ELSE IF ~Runnable(InstallCommand(built.arguments))
    THEN NotRun /\ Ends(MaintenanceStatus("Installing AGW"),
                        checked.log, "True", built.arguments, started, "TypeError")
    ELSE \E returncode \in ReturnCodes :
            /\ returncodes' = <<returncode>>
            /\ Ends(MaintenanceStatus("Rebooting to apply changes"),
                    checked.log, "True", built.arguments,
                    started \o <<InstallCommand(built.arguments), RebootCommand>>, "")

\* _on_install as it would be if it ran the install script before it looked
\* at what the validation returned
InstallScriptFirst(checked, built, started) ==
    IF built.exc # ""
    THEN NotRun /\ Ends(MaintenanceStatus("Installing AGW"), checked.log,
                        IF checked.ok THEN "True" ELSE "False", <<>>, started, built.exc)
    ELSE \E returncode \in ReturnCodes :
            /\ returncodes' = <<returncode>>
            /\ IF ~checked.ok
               THEN Ends(BlockedStatus("Configuration is invalid. Check logs for details"),
                         checked.log, "False", built.arguments,
                         Append(started, InstallCommand(built.arguments)), "")
               ELSE IF returncode # 0
               THEN Ends(BlockedStatus("Installation script failed. See logs for details"),
                         checked.log, "True", built.arguments,
                         Append(started, InstallCommand(built.arguments)), "")
               ELSE Ends(MaintenanceStatus("Rebooting to apply changes"),
                         checked.log, "True", built.arguments,
                         started \o <<InstallCommand(built.arguments), RebootCommand>>, "")

\* _on_install from "if not self._is_configuration_valid()" on: checked is
\* what _is_configuration_valid returns and logs, built what
\* _install_arguments returns or raises
InstallOrBlock(checked, built, started) ==
    IF ~checked.ok
    THEN NotRun /\ Ends(BlockedStatus("Configuration is invalid. Check logs for details"),
                        checked.log, "False", <<>>, started, "")
    ELSE IF built.exc # ""
    THEN NotRun /\ Ends(MaintenanceStatus("Installing AGW"),
                        checked.log, "True", <<>>, started, built.exc)
    ELSE IF ~Runnable(InstallCommand(built.arguments))
    THEN NotRun /\ Ends(MaintenanceStatus("Installing AGW"),
                        checked.log, "True", built.arguments, started, "TypeError")
    ELSE \E returncode \in ReturnCodes :
            /\ returncodes' = <<returncode>>
            /\ IF returncode # 0
               THEN Ends(BlockedStatus("Installation script failed. See logs for details"),
                         checked.log, "True", built.arguments,
                         Append(started, InstallCommand(built.arguments)), "")
               ELSE Ends(MaintenanceStatus("Rebooting to apply changes"),
                         checked.log, "True", built.arguments,
                         started \o <<InstallCommand(built.arguments), RebootCommand>>, "")

\* _on_install as it would be without the check that magmad is enabled
InstallWhileEnabled(cfg) ==
    InstallOrBlock(_is_configuration_valid(cfg, interfaces),
                   _install_arguments(cfg),
                   <<IsEnabledCommand, SnapInstallCommand>>)

\* _on_install as it would be if a blocked unit stayed blocked
InstallUnlessBlocked(cfg) ==
    IF magmad_enabled \/ status.name = "blocked"
    THEN NotRun /\ Ends(status, <<>>, "n/a", <<>>, <<IsEnabledCommand>>, "")
    ELSE InstallOrBlock(_is_configuration_valid(cfg, interfaces),
                        _install_arguments(cfg),
                        <<IsEnabledCommand, SnapInstallCommand>>)

\* _on_install, the handler of the install and config-changed events, over
\* the configuration cfg, from its first statement to its return
_on_install(cfg) ==
    IF magmad_enabled
    THEN NotRun /\ Ends(status, <<>>, "n/a", <<>>, <<IsEnabledCommand>>, "")
    ELSE InstallOrBlock(_is_configuration_valid(cfg, interfaces),
                        _install_arguments(cfg),
                        <<IsEnabledCommand, SnapInstallCommand>>)

\* juju config <key>=<value>, then the config-changed event
ConfigChanged(key, value) ==
    /\ config' = [k \in DOMAIN config \cup {key} |->
                    IF k = key THEN value ELSE config[k]]
    /\ _on_install(config')
    /\ UNCHANGED <<interfaces, magmad_enabled, service_vars>>

\* juju config --reset <key>, then the config-changed event: the option
\* takes its default again, and is not set when it has none
ConfigReset(key) ==
    /\ key \in DOMAIN config
    /\ config' = [k \in IF key \in DOMAIN DefaultConfig
                        THEN DOMAIN config ELSE DOMAIN config \ {key} |->
                    IF k = key THEN DefaultConfig[k] ELSE config[k]]
    /\ _on_install(config')
    /\ UNCHANGED <<interfaces, magmad_enabled, service_vars>>

\* the install event as it would be if _install_arguments popped
\* skip-networking and dns from self.model.config and not from a copy
InstallPoppingStoredConfiguration ==
    /\ _on_install(config)
    /\ config' = IF ~magmad_enabled /\ _is_configuration_valid(config, interfaces).ok
                 THEN [k \in DOMAIN config \ {"skip-networking", "dns"} |-> config[k]]
                 ELSE config
    /\ UNCHANGED <<interfaces, magmad_enabled, service_vars>>

\* the install event
Install ==
    /\ _on_install(config)
    /\ UNCHANGED <<config, interfaces, magmad_enabled, service_vars>>

\* the host: its interfaces are renamed, or named back
HostChanged ==
    /\ \E ifaces \in HostInterfaces : interfaces' = ifaces
    /\ interfaces' # interfaces
    /\ UNCHANGED <<config, magmad_enabled, status, status_found, log, valid, arguments,
                   calls, uncaught, returncodes, deferred, service_vars>>

\* the host: magma@magmad is enabled (by the install script after the
\* reboot) or disabled
Systemctl ==
    /\ magmad_enabled' = ~magmad_enabled
    /\ UNCHANGED <<config, interfaces, status, status_found, log, valid, arguments,
                   calls, uncaught, returncodes, deferred, service_vars>>

Next ==
    \/ \E i \in 1..Len(ConfigKeys) :
          \E value \in Values(ConfigKeys[i]) : ConfigChanged(ConfigKeys[i], value)
    \/ \E i \in 1..Len(ConfigKeys) : ConfigReset(ConfigKeys[i])
    \/ Install
    \/ HostChanged
    \/ Systemctl

Spec == Init /\ [][Next]_vars

(***************************************************************************)
(* Every configuration: the handler over configurations drawn from the     *)
(* product of the options' values, an option without default being set or  *)
(* not.  The product is taken four times, each time with one group of      *)
(* options drawn from many values and the others from few.                 *)
(***************************************************************************)
\* the longest dns list drawn
MaxDnsServers == 2

\* what a dns list holds: addresses, a host name, a number
DnsElements ==
    { Quoted(Dotted(8, 8, 8, 8)), Quoted(Fe80), Quoted(Word("dns1.example.com")),
      <<D(1)>> }

\* elements joined by ","
RECURSIVE Joined(_)
Joined(elements) ==
    IF Len(elements) = 0 THEN <<>>
    ELSE IF Len(elements) = 1 THEN elements[1]
    ELSE elements[1] \o <<Y(",")>> \o Joined(Tail(elements))

\* the JSON text of every list of at most MaxDnsServers elements
DnsLists ==
    UNION { { <<Y("[")>> \o Joined(elements) \o <<Y("]")>> :
                elements \in [1..n -> DnsElements] } : n \in 0..MaxDnsServers }

\* dns texts that are no list, or no JSON
DnsOthers ==
    { Word("notjson"),
      <<Y("{")>> \o Quoted(Word("dns")) \o <<Y(":")>> \o Quoted(Dotted(8, 8, 8, 8))
          \o <<Y("}")>>,
      Quoted(Dotted(8, 8, 8, 8)),
      <<Y("[")>> \o Quoted(Dotted(8, 8, 8, 8)) \o <<Y(","), Y("]")>> }

Option(texts) == {<<PyStr(text)>> : text \in texts}

NotSet == {<<>>}

Empty == <<>>

SgiNames == {Word("enp0s1"), Word("nosuchinterface")}

S1Names == {Word("enp0s2"), Word("bananaphone")}

\* "10.0.0.2/24", and "10.0.0.2" that lacks the netmask
Ipv4Addresses == {Dotted(10, 0, 0, 2) \o Slash(24), Dotted(10, 0, 0, 2)}

\* "10.0.0.1", and "10.0.0.1/24" that is no bare address
Ipv4Gateways == {Dotted(10, 0, 0, 1), Dotted(10, 0, 0, 1) \o Slash(24)}

\* "fe80::1/64", and "fe80::1/128"
Ipv6Addresses == {Fe80 \o Slash(64), Fe80 \o Slash(128)}

\* "fe80::1", and "10.0.0.1" of the other family
Ipv6Gateways == {Fe80, Dotted(10, 0, 0, 1)}

AddressKeys ==
    { "sgi-ipv4-address", "sgi-ipv4-gateway", "sgi-ipv6-address",
      "sgi-ipv6-gateway", "s1-ipv4-address", "s1-ipv6-address" }

\* the texts an address option is drawn from
AddressTexts(key) ==
    CASE key \in {"sgi-ipv4-address", "s1-ipv4-address"} -> Ipv4Addresses
      [] key = "sgi-ipv4-gateway" -> Ipv4Gateways
      [] key \in {"sgi-ipv6-address", "s1-ipv6-address"} -> Ipv6Addresses
      [] key = "sgi-ipv6-gateway" -> Ipv6Gateways

\* the first of the texts above: the well-formed one
GoodText(key) ==
    CASE key = "sgi-ipv4-address" -> Dotted(10, 0, 0, 2) \o Slash(24)
      [] key = "s1-ipv4-address" -> Dotted(10, 1, 0, 2) \o Slash(24)
      [] key = "sgi-ipv4-gateway" -> Dotted(10, 0, 0, 1)
      [] key \in {"sgi-ipv6-address", "s1-ipv6-address"} -> Fe80 \o Slash(64)
      [] key = "sgi-ipv6-gateway" -> Fe80
      [] key = "sgi" -> Word("enp0s1")
      [] key = "s1" -> Word("enp0s2")
      [] key = "dns" -> DefaultDns

\* few values of every option: set well or not set; dns well or not JSON
Few(key) ==
    CASE key = "skip-networking" -> {<<PyBool(TRUE)>>, <<PyBool(FALSE)>>}
      [] key = "dns" -> Option({DefaultDns, Word("notjson")})
      [] OTHER -> NotSet \cup Option({GoodText(key)})

\* many values of the options in group, few of the others
Many(group, key) ==
    IF key \notin group THEN Few(key)
    ELSE CASE key = "skip-networking" -> Few(key)
           [] key = "dns" -> Option(DnsLists \cup DnsOthers)
           [] key = "sgi" -> NotSet \cup Option({Empty} \cup SgiNames)
           [] key = "s1" -> NotSet \cup Option({Empty} \cup S1Names)
           [] OTHER -> NotSet \cup Option({Empty} \cup AddressTexts(key))

\* the other options as they are in a valid configuration that sets them
Rest(group, key) ==
    IF key \in group THEN Many(group, key)
    ELSE IF key = "skip-networking" THEN {<<PyBool(FALSE)>>}
    ELSE IF key \in {"dns", "sgi", "s1"} THEN Option({GoodText(key)})
    ELSE NotSet

\* the configurations whose options from the i-th on are drawn from choice
RECURSIVE Product(_, _)
Product(choice, i) ==
    IF i > Len(ConfigKeys) THEN {<<>>}
    ELSE LET key == ConfigKeys[i]
         IN  { [k \in DOMAIN cfg \cup (IF option = <<>> THEN {} ELSE {key}) |->
                    IF k = key THEN option[1] ELSE cfg[k]] :
                  cfg \in Product(choice, i + 1), option \in choice[key] }

Options == {ConfigKeys[i] : i \in 1..Len(ConfigKeys)}

FewOfAll == [key \in Options |-> Few(key)]

ManyNames == [key \in Options |-> Rest({"skip-networking", "sgi", "s1"}, key)]

ManySgi ==
    [key \in Options |->
        Rest({"skip-networking", "sgi-ipv4-address", "sgi-ipv4-gateway",
              "sgi-ipv6-address", "sgi-ipv6-gateway"}, key)]

ManyS1 ==
    [key \in Options |->
        Rest({"skip-networking", "s1-ipv4-address", "s1-ipv6-address", "dns"}, key)]

Configs ==
    Product(FewOfAll, 1) \cup Product(ManyNames, 1)
        \cup Product(ManySgi, 1) \cup Product(ManyS1, 1)

\* the lists of interfaces of a host: none of the names, the configured
\* names, the names Magma gives, one of each
AnyInterfaces ==
    HostInterfaces \cup {{Word("lo")}, {Word("enp0s1"), Word("eth1")}}

InitInstall ==
    /\ config \in Configs
    /\ interfaces \in AnyInterfaces
    /\ Fresh

NextInstall == Install

SpecInstall == InitInstall /\ [][NextInstall]_vars

(***************************************************************************)
(* Every address: the handler over the configuration that sets every       *)
(* option well, but for one address option whose text is written out from  *)
(* a description: a host part and what follows it.                         *)
(***************************************************************************)
\* "2001:db8:85a3:0:0:8a2e:370:7334"
FullIpv6 ==
    << D(2001), Y(":"), H(3512), Y(":"), H(34211), Y(":"), D(0), Y(":"), D(0),
       Y(":"), H(35374), Y(":"), D(370), Y(":"), D(7334) >>

\* the host parts: two IPv4 addresses, three IPv6 addresses, and four texts
\* that are no address ("junk", "10.0.0", "10.0.0.256", "1:2")
HostParts == {"v4", "v4zero", "v6", "v6full", "v6any", "word", "short", "big", "pair"}

HostText(host) ==
    CASE host = "v4" -> Dotted(10, 0, 0, 2)
      [] host = "v4zero" -> Dotted(0, 0, 0, 0)
      [] host = "v6" -> Fe80
      [] host = "v6full" -> FullIpv6
      [] host = "v6any" -> <<Y(":"), Y(":")>>
      [] host = "word" -> Word("junk")
      [] host = "short" -> <<D(10), Y("."), D(0), Y("."), D(0)>>
      [] host = "big" -> Dotted(10, 0, 0, 256)
      [] host = "pair" -> <<D(1), Y(":"), D(2)>>

\* the family of the host part, 0 when it is no address
FamilyOf(host) ==
    CASE host \in {"v4", "v4zero"} -> 4
      [] host \in {"v6", "v6full", "v6any"} -> 6
      [] OTHER -> 0

\* the prefix lengths written after "/"
PrefixLengths == {0, 1, 24, 31, 32, 33, 64, 127, 128, 129}

\* the dotted netmasks and host masks written after "/", with the prefix
\* length each stands for
DottedMasks ==
    { [text |-> Dotted(255, 255, 255, 0), n |-> 24],
      [text |-> Dotted(255, 255, 255, 254), n |-> 31],
      [text |-> Dotted(255, 255, 255, 255), n |-> 32],
      [text |-> Dotted(128, 0, 0, 0), n |-> 1],
      [text |-> Dotted(0, 0, 0, 0), n |-> 0],
      [text |-> Dotted(0, 0, 0, 255), n |-> 24],
      [text |-> Dotted(0, 255, 255, 255), n |-> 8] }

\* what follows the host part: nothing; "/" and a prefix length; "/" and a
\* dotted mask; or something that is no netmask ("/", "/24/24", "/junk",
\* "/255.0.255.0")
Suffixes ==
    {[kind |-> "none", text |-> <<>>, n |-> 0]}
        \cup {[kind |-> "length", text |-> Slash(n), n |-> n] : n \in PrefixLengths}
        \cup {[kind |-> "dotted", text |-> <<Y("/")>> \o m.text, n |-> m.n] :
                m \in DottedMasks}
        \cup { [kind |-> "bad", text |-> <<Y("/")>>, n |-> 0],
               [kind |-> "bad", text |-> Slash(24) \o Slash(24), n |-> 0],
               [kind |-> "bad", text |-> <<Y("/"), W("junk")>>, n |-> 0],
               [kind |-> "bad", text |-> <<Y("/")>> \o Dotted(255, 0, 255, 0), n |-> 0] }

AddressDescriptions == [host : HostParts, suffix : Suffixes]

\* the text of a description
Written(d) == HostText(d.host) \o d.suffix.text

\* the configuration of the charm's test of a static configuration
StaticConfig ==
    [k \in Options |->
        IF k = "skip-networking" THEN PyBool(FALSE) ELSE PyStr(GoodText(k))]

InitAddress ==
    /\ \E key \in AddressKeys, d \in AddressDescriptions :
          config = [StaticConfig EXCEPT ![key] = PyStr(Written(d))]
    /\ interfaces = {Word("enp0s1"), Word("enp0s2")}
    /\ Fresh

NextAddress == Install

SpecAddress == InitAddress /\ [][NextAddress]_vars

(***************************************************************************)
(* The service: the start event and the orchestrator's announcement, on a  *)
(* host whose directories and files Magma and the charm write              *)
(***************************************************************************)
ROOT_CA_PATH == "/var/opt/magma/tmp/certs/rootCA.pem"

CERT_CERTIFIER_CERT == "/var/opt/magma/tmp/certs/certifier.pem"

CONFIG_PATH == "/var/opt/magma/configs/control_proxy.yml"

\* the files _remove_agw_cert_files unlinks, in its order
AgwCertFiles ==
    << "/var/opt/magma/gateway.crt", "/var/opt/magma/gateway.key",
       "/var/opt/magma/gw_challenge.key" >>

\* Path.parent of the paths above and of their directories
Parent(path) ==
    CASE path \in {ROOT_CA_PATH, CERT_CERTIFIER_CERT} -> "/var/opt/magma/tmp/certs"
      [] path = CONFIG_PATH -> "/var/opt/magma/configs"
      [] path = "/var/opt/magma/tmp/certs" -> "/var/opt/magma/tmp"
      [] path \in {"/var/opt/magma/tmp", "/var/opt/magma/configs"} -> "/var/opt/magma"
      [] path = "/var/opt/magma" -> "/var/opt"
      [] OTHER -> "/var/opt/magma"

\* the directories Magma and the charm make; /var/opt is there
Directories ==
    { "/var/opt/magma", "/var/opt/magma/tmp", "/var/opt/magma/tmp/certs",
      "/var/opt/magma/configs" }

Exists(ds, path) == path = "/var/opt" \/ path \in ds

ActiveStatus == Status("active", "")

IsActiveCommand == Command(<<"systemctl", "is-active", "magma@magmad">>)

\* _restart_magma
RestartCommands ==
    << Command(<<"service", "magma@*", "stop">>),
       Command(<<"service", "magma@magmad", "start">>) >>

\* what a step on the file system leaves: the directories, the files, the
\* exception it raised or "", whether a file was written, and the steps
\* taken so far
Fs(ds, fl, exc, changed, done) ==
    [dirs |-> ds, files |-> fl, exc |-> exc, changed |-> changed, ops |-> done]

\* a step on the host: what is done, and to which file or service
Op(what, target) == <<what, target>>

\* Path.write_text(content)
WriteText(fl, file, content) ==
    [f \in DOMAIN fl \cup {file} |-> IF f = file THEN content ELSE fl[f]]

\* install_file as it would be if it wrote the file whatever it holds
InstallFileAlways(fs, file, content) ==
    IF fs.exc # "" THEN fs
    ELSE IF ~Exists(fs.dirs, Parent(file)) /\ ~Exists(fs.dirs, Parent(Parent(file)))
    THEN Fs(fs.dirs, fs.files, "FileNotFoundError", fs.changed, fs.ops)
    ELSE Fs(fs.dirs \cup {Parent(file)}, WriteText(fs.files, file, content), "", TRUE,
            Append(fs.ops, Op("write", file)))

\* install_file(file, content) on the file system fs left by the steps
\* before it; Path.mkdir() raises FileNotFoundError when the parent of the
\* directory is missing
install_file(fs, file, content) ==
    IF fs.exc # "" THEN fs
    ELSE IF ~Exists(fs.dirs, Parent(file))
    THEN IF ~Exists(fs.dirs, Parent(Parent(file)))
         THEN Fs(fs.dirs, fs.files, "FileNotFoundError", fs.changed, fs.ops)
         ELSE Fs(fs.dirs \cup {Parent(file)}, WriteText(fs.files, file, content), "",
                 TRUE, fs.ops \o <<Op("mkdir", Parent(file)), Op("write", file)>>)
    ELSE IF file \in DOMAIN fs.files /\ fs.files[file] = content
    THEN fs
    ELSE Fs(fs.dirs, WriteText(fs.files, file, content), "", TRUE,
            Append(fs.ops, Op("write", file)))

\* _certifier_pem_changed(new_cert)
_certifier_pem_changed(fl, new_cert) ==
    CERT_CERTIFIER_CERT \in DOMAIN fl /\ fl[CERT_CERTIFIER_CERT] # new_cert

\* Path(file).unlink() on the file system fs: FileNotFoundError is caught
\* and a file that is missing is passed over
Unlink(fs, file) ==
    IF file \in DOMAIN fs.files
    THEN Fs(fs.dirs, [f \in DOMAIN fs.files \ {file} |-> fs.files[f]], fs.exc,
            fs.changed, Append(fs.ops, Op("unlink", file)))
    ELSE fs

\* _remove_agw_cert_files as it would be if it removed the certificate only
RemovingCertificateOnly(fs) == Unlink(fs, AgwCertFiles[1])

\* _remove_agw_cert_files on the file system fs
_remove_agw_cert_files(fs) ==
    Unlink(Unlink(Unlink(fs, AgwCertFiles[1]), AgwCertFiles[2]), AgwCertFiles[3])

\* _generate_config: the lines of the text
_generate_config(event) ==
    << "cloud_address: " \o event.orchestrator_address,
       "cloud_port: " \o ToString(event.orchestrator_port),
       "bootstrap_address: " \o event.bootstrapper_address,
       "bootstrap_port: " \o ToString(event.bootstrapper_port),
       "fluentd_address: " \o event.fluentd_address,
       "fluentd_port: " \o ToString(event.fluentd_port),
       "",
       "rootca_cert: " \o ROOT_CA_PATH >>

\* _install_configurations(event) on the file system fs: the three files
\* are installed one after the other, and any() of the three results
_install_configurations(fs, event) ==
    install_file(
        install_file(
            install_file(fs, ROOT_CA_PATH, event.root_ca_certificate),
            CERT_CERTIFIER_CERT, event.certifier_pem_certificate),
        CONFIG_PATH, _generate_config(event))

\* what a run of a handler other than _on_install leaves behind
Handled(st, cl, exc, defer) ==
    /\ status' = st
    /\ calls' = cl
    /\ uncaught' = exc
    /\ deferred' = defer
    /\ UNCHANGED <<config, interfaces, magmad_enabled, status_found, log, valid,
                   arguments, returncodes>>

\* "if not self._magma_service_is_running: event.defer(); return" and
\* "self.unit.status = ActiveStatus()", with the status st and the commands
\* cl of the handler so far, the service being active or not at the check
ActiveOrDefer(st, cl, active) ==
    IF ~active
    THEN Handled(st, Append(cl, IsActiveCommand), "", TRUE)
    ELSE Handled(ActiveStatus, Append(cl, IsActiveCommand), "", FALSE)

\* _on_start as it would be if it set the status before the check
StartSettingActive ==
    /\ IF ~magma_active
       THEN Handled(ActiveStatus, <<IsActiveCommand>>, "", TRUE)
       ELSE Handled(ActiveStatus, <<IsActiveCommand>>, "", FALSE)
    /\ UNCHANGED service_vars

\* _on_start, the handler of the start event
_on_start ==
    /\ ActiveOrDefer(status, <<>>, magma_active)
    /\ UNCHANGED service_vars

\* _on_orchestrator_available from _install_configurations on, fs being
\* what it left: an exception escapes; or the gateway is restarted, which
\* leaves the service active or not; or nothing changed
RestartIfChanged(fs, event) ==
    /\ dirs' = fs.dirs
    /\ files' = fs.files
    /\ IF fs.exc # ""
       THEN /\ Handled(status, <<>>, fs.exc, FALSE)
            /\ ops' = fs.ops
            /\ UNCHANGED <<magma_active, announced>>
       ELSE IF fs.changed
       THEN \E active \in BOOLEAN :
               /\ magma_active' = active
               /\ announced' = <<event>>
               /\ ops' = fs.ops \o <<Op("stop", "magma@*"), Op("start", "magma@magmad")>>
               /\ ActiveOrDefer(
                     MaintenanceStatus("Restarting Access Gateway to apply changes"),
                     RestartCommands, active)
       ELSE /\ ActiveOrDefer(status, <<>>, magma_active)
            /\ announced' = <<event>>
            /\ ops' = fs.ops
            /\ UNCHANGED magma_active

\* _on_orchestrator_available(event), the handler of the orchestrator's
\* announcement
_on_orchestrator_available(event) ==
    /\ RestartIfChanged(
          _install_configurations(
              IF _certifier_pem_changed(files, event.certifier_pem_certificate)
              THEN _remove_agw_cert_files(Fs(dirs, files, "", FALSE, <<>>))
              ELSE Fs(dirs, files, "", FALSE, <<>>),
              event),
          event)
    /\ UNCHANGED <<lte_vars, action_vars>>

\* the announcements of an orchestrator: two root certificates, two
\* certifier certificates, two addresses
Announcements ==
    [ orchestrator_address : {"orc8r.example.com", "orc8r-2.example.com"},
      orchestrator_port : {443},
      bootstrapper_address : {"bootstrapper.example.com"},
      bootstrapper_port : {443},
      fluentd_address : {"fluentd.example.com"},
      fluentd_port : {24224},
      root_ca_certificate : {<<"root ca 1">>, <<"root ca 2">>},
      certifier_pem_certificate : {<<"certifier 1">>, <<"certifier 2">>} ]

\* the host: Magma or the operator makes a directory
Mkdir ==
    /\ \E d \in Directories \ dirs :
          /\ Exists(dirs, Parent(d))
          /\ dirs' = dirs \cup {d}
    /\ UNCHANGED <<config, interfaces, magmad_enabled, status, status_found, log, valid,
                   arguments, calls, uncaught, returncodes, deferred,
                   magma_active, files, announced, ops, lte_vars, action_vars>>

\* the host: the gateway bootstraps and writes its certificate and keys; or
\* the challenge key is removed
Bootstrapped ==
    /\ "/var/opt/magma" \in dirs
    /\ \/ files' = [f \in DOMAIN files \cup {AgwCertFiles[i] : i \in 1..Len(AgwCertFiles)} |->
                      IF f \in DOMAIN files THEN files[f] ELSE <<"secret">>]
       \/ files' = [f \in DOMAIN files \ {AgwCertFiles[3]} |-> files[f]]
    /\ files' # files
    /\ UNCHANGED <<config, interfaces, magmad_enabled, status, status_found, log, valid,
                   arguments, calls, uncaught, returncodes, deferred,
                   magma_active, dirs, announced, ops, lte_vars, action_vars>>

\* the host: the magma service becomes active, or stops
ServiceChanged ==
    /\ magma_active' = ~magma_active
    /\ UNCHANGED <<config, interfaces, magmad_enabled, status, status_found, log, valid,
                   arguments, calls, uncaught, returncodes, deferred,
                   dirs, files, announced, ops, lte_vars, action_vars>>

Start == _on_start

OrchestratorAvailable == \E event \in Announcements : _on_orchestrator_available(event)

NextOrchestrator ==
    \/ Start
    \/ OrchestratorAvailable
    \/ Mkdir
    \/ Bootstrapped
    \/ ServiceChanged

SpecOrchestrator == Init /\ [][NextOrchestrator]_vars

(***************************************************************************)
(* The actions: get-access-gateway-secrets and post-install-checks         *)
(***************************************************************************)
HARDWARE_ID_LABEL == Word("Hardware ID")

CHALLENGE_KEY_LABEL == Word("Challenge key")

\* the first position of x in list, 0 when list.index(x) raises ValueError
Index(list, x) ==
    IF \E i \in 1..Len(list) : list[i] = x
    THEN CHOOSE i \in 1..Len(list) :
            list[i] = x /\ \A j \in 1..(i - 1) : list[j] # x
    ELSE 0

\* filter(None, lines): the lines that are not empty
NotEmpty(line) == line # <<>>

\* not re.search("^-(-*)", x): the lines that do not begin with a dash
NotDashed(line) == line = <<>> \/ ~(IsMark(line[1], "-") \/ IsMark(line[1], "--"))

\* the lines _get_magma_secrets looks the labels up in
GatewayInfo(stdout) == SelectSeq(SelectSeq(Split(stdout, "\n"), NotEmpty), NotDashed)

\* gateway_info[gateway_info.index(label) + 1]
After(lines, label) ==
    IF Index(lines, label) = 0 THEN [exc |-> "ValueError", line |-> <<>>]
    ELSE IF Index(lines, label) + 1 > Len(lines)
    THEN [exc |-> "IndexError", line |-> <<>>]
    ELSE [exc |-> "", line |-> lines[Index(lines, label) + 1]]

\* the return statement of _get_magma_secrets, the two lookups done
Secrets(hardware_id, challenge_key) ==
    IF hardware_id.exc # ""
    THEN [exc |-> hardware_id.exc, hardware_id |-> <<>>, challenge_key |-> <<>>]
    ELSE [exc |-> challenge_key.exc, hardware_id |-> hardware_id.line,
          challenge_key |-> IF challenge_key.exc = "" THEN challenge_key.line ELSE <<>>]

\* _get_magma_secrets, show_gateway_info.py having run as in run
_get_magma_secrets(run) ==
    IF run.exc # ""
    THEN [exc |-> run.exc, hardware_id |-> <<>>, challenge_key |-> <<>>]
    ELSE Secrets(After(GatewayInfo(run.stdout), HARDWARE_ID_LABEL),
                 After(GatewayInfo(run.stdout), CHALLENGE_KEY_LABEL))

ShowGatewayInfoCommand == Command(<<"show_gateway_info.py">>)

PostInstallCommand == Command(<<"magma-access-gateway.post-install">>)

successful_msg == "Magma AGW post-installation checks finished successfully."

failed_msg ==
    "Post-installation checks failed. For more information, please check journalctl logs."

\* str(e) of the exception class exc raised for the command tool
StrOf(exc, tool) ==
    IF exc = "FileNotFoundError"
    THEN "[Errno 2] No such file or directory: '" \o tool \o "'"
    ELSE exc

\* what a run of an action handler leaves behind
Acted(cl, info, checks, message, res, exc) ==
    /\ calls' = cl
    /\ gateway_info' = info
    /\ post_install_checks' = checks
    /\ failure' = message
    /\ results' = res
    /\ uncaught' = exc
    /\ deferred' = FALSE
    /\ UNCHANGED <<config, interfaces, magmad_enabled, status, status_found, log, valid,
                   arguments, returncodes, magma_active, dirs, files,
                   announced, ops, lte_vars>>

\* the try statement of _on_get_access_gateway_secrets, run being the run
\* of show_gateway_info.py and secrets what _get_magma_secrets made of it
SetSecrets(run, secrets) ==
    IF secrets.exc = ""
    THEN Acted(<<IsActiveCommand, ShowGatewayInfoCommand>>, <<run>>, <<>>, "",
               { <<"hardware-id", secrets.hardware_id>>,
                 <<"challenge-key", secrets.challenge_key>> }, "")
    ELSE IF secrets.exc \in {"CalledProcessError", "IndexError", "ValueError"}
    THEN Acted(<<IsActiveCommand, ShowGatewayInfoCommand>>, <<run>>, <<>>,
               "Failed to get Magma Access Gateway secrets!", {}, "")
    ELSE Acted(<<IsActiveCommand, ShowGatewayInfoCommand>>, <<run>>, <<>>,
               StrOf(secrets.exc, "show_gateway_info.py"), {}, "")

\* _on_get_access_gateway_secrets as it would be without its first check
SecretsWithoutCheck(run) == SetSecrets(run, _get_magma_secrets(run))

\* _on_get_access_gateway_secrets, the handler of the action
_on_get_access_gateway_secrets(run) ==
    IF ~magma_active
    THEN Acted(<<IsActiveCommand>>, <<>>, <<>>,
               "Magma is not running! Please start Magma and try again.", {}, "")
    ELSE SetSecrets(run, _get_magma_secrets(run))

\* _on_post_install_checks_action as it would be if it read the tool's
\* output and let the tool's exceptions pass
ChecksByOutput(run) ==
    IF run.exc # ""
    THEN Acted(<<PostInstallCommand>>, <<>>, <<run>>, "", {}, run.exc)
    ELSE Acted(<<PostInstallCommand>>, <<>>, <<run>>, "",
               { <<"post-install-checks-output",
                   IF run.stdout = <<>> THEN successful_msg ELSE failed_msg>> }, "")

\* _on_post_install_checks_action, the handler of the action, the
\* post-install tool running as in run
_on_post_install_checks_action(run) ==
    IF run.exc = "CalledProcessError"
    THEN Acted(<<PostInstallCommand>>, <<>>, <<run>>,
               "Failed to run post-install checks.", {}, "")
    ELSE IF run.exc # ""
    THEN Acted(<<PostInstallCommand>>, <<>>, <<run>>,
               StrOf(run.exc, "magma-access-gateway.post-install"), {}, "")
    ELSE Acted(<<PostInstallCommand>>, <<>>, <<run>>, "",
               { <<"post-install-checks-output",
                   IF run.returncode = 0 THEN successful_msg ELSE failed_msg>> }, "")

\* a line of text and the newline that ends it
Line(words) == words \o <<Y("\n")>>

Underline == <<Y("--"), Y("-")>>

\* the values show_gateway_info.py prints
GatewayValues == {Word("0a1b2c3d"), Word("MHYwEAYH")}

\* a section of the output of show_gateway_info.py: a label, underlined or
\* not, and its value, each of them there or missing
Headers ==
    { <<>>, Line(HARDWARE_ID_LABEL), Line(HARDWARE_ID_LABEL) \o Line(Underline),
      Line(CHALLENGE_KEY_LABEL), Line(CHALLENGE_KEY_LABEL) \o Line(Underline) }

Sections ==
    { header \o value :
        header \in Headers, value \in {<<>>} \cup {Line(v) : v \in GatewayValues} }

\* the outputs: a section, an empty line or none, a section
GatewayOutputs ==
    { first \o between \o second :
        first \in Sections, between \in {<<>>, Line(<<>>)}, second \in Sections }

\* a run of a tool: the exception subprocess raised, or the exit code and
\* the output
Ran(exc, returncode, stdout) == [exc |-> exc, returncode |-> returncode, stdout |-> stdout]

\* the runs of show_gateway_info.py under check_output: a non-zero exit
\* code raises CalledProcessError, a missing tool FileNotFoundError
GatewayInfoRuns ==
    {Ran("", 0, stdout) : stdout \in GatewayOutputs}
        \cup {Ran("CalledProcessError", 1, <<>>), Ran("FileNotFoundError", 0, <<>>)}

\* the runs of magma-access-gateway.post-install under subprocess.run
PostInstallRuns ==
    {Ran("", returncode, stdout) :
        returncode \in {0, 1, 2, -9},
        stdout \in {<<>>, Line(Word("All checks passed")), Line(Word("Checks failed"))}}
        \cup {Ran("FileNotFoundError", 0, <<>>), Ran("PermissionError", 0, <<>>)}

GetAccessGatewaySecrets ==
    \E run \in GatewayInfoRuns : _on_get_access_gateway_secrets(run)

PostInstallChecks ==
    \E run \in PostInstallRuns : _on_post_install_checks_action(run)

NextActions ==
    \/ GetAccessGatewaySecrets
    \/ PostInstallChecks
    \/ ServiceChanged

SpecActions == Init /\ [][NextActions]_vars

(***************************************************************************)
(* The lte-core relation: the address of eth1 published to the MME's user  *)
(***************************************************************************)
WaitingStatus(message) == Status("waiting", message)

\* netifaces.ifaddresses("eth1") on an interface: present, and inet its
\* AF_INET addresses, none when the interface has no IPv4 address
Interface(present, inet) == [present |-> present, inet |-> inet]

\* the interface eth1 on the hosts: missing, without an IPv4 address, with one
Eth1s ==
    { Interface(FALSE, <<>>), Interface(TRUE, <<>>),
      Interface(TRUE, <<"192.168.60.142">>), Interface(TRUE, <<"10.0.2.15", "10.0.2.16">>) }

\* netifaces.ifaddresses("eth1")[netifaces.AF_INET][0]["addr"]: ValueError
\* for an interface that is not there, KeyError for one that has no
\* AF_INET entry
Eth1Address ==
    IF ~eth1.present THEN [exc |-> "ValueError", ip |-> ""]
    ELSE IF eth1.inet = <<>> THEN [exc |-> "KeyError", ip |-> ""]
    ELSE [exc |-> "", ip |-> eth1.inet[1]]

\* the try statement of _on_lte_core_relation_joined, address being what
\* the lookup of the address gave
PublishOrWait(address) ==
    IF address.exc = ""
    THEN /\ lte_core' = <<address.ip>>
         /\ Handled(ActiveStatus, <<>>, "", FALSE)
    ELSE IF address.exc \in {"ValueError", "AddressValueError"}
    THEN /\ UNCHANGED lte_core
         /\ Handled(WaitingStatus("Waiting for the MME interface to be ready"),
                    <<>>, "", TRUE)
    ELSE /\ UNCHANGED lte_core
         /\ Handled(status, <<>>, address.exc, FALSE)

\* _on_lte_core_relation_joined, the handler of the relation's joined event
_on_lte_core_relation_joined ==
    /\ IF ~leader
       THEN UNCHANGED lte_core /\ Handled(status, <<>>, "", FALSE)
       ELSE PublishOrWait(Eth1Address)
    /\ UNCHANGED <<leader, eth1, magma_active, dirs, files, announced, ops,
                   action_vars>>

\* the host: eth1 appears, goes, gets or loses its IPv4 addresses
Eth1Changed ==
    /\ eth1' \in Eth1s \ {eth1}
    /\ UNCHANGED <<config, interfaces, magmad_enabled, status, status_found, log, valid,
                   arguments, calls, uncaught, returncodes, deferred,
                   magma_active, dirs, files, announced, ops, leader, lte_core,
                   action_vars>>

\* Juju: the unit becomes the leader, or another unit does
LeaderChanged ==
    /\ leader' = ~leader
    /\ UNCHANGED <<config, interfaces, magmad_enabled, status, status_found, log, valid,
                   arguments, calls, uncaught, returncodes, deferred,
                   magma_active, dirs, files, announced, ops, eth1, lte_core,
                   action_vars>>

LteCoreRelationJoined == _on_lte_core_relation_joined

NextLteCore ==
    \/ LteCoreRelationJoined
    \/ Eth1Changed
    \/ LeaderChanged
    \/ Start
    \/ ServiceChanged

SpecLteCore == Init /\ [][NextLteCore]_vars

(***************************************************************************)
(* Properties                                                              *)
(***************************************************************************)
\* the last run of the handler validated the configuration
Validated == valid # "n/a"

SkipNetworking == Truthy(config["skip-networking"])

\* the option is set to a text that is not empty
IsSet(key) == key \in DOMAIN config /\ config[key].text # <<>>

InLog(message) == \E i \in 1..Len(log) : log[i] = message

Times(message) == Cardinality({i \in 1..Len(log) : log[i] = message})

\* C1: whenever skip-networking is true, whatever the other options hold,
\* validation returns true and the install arguments are exactly
\* "--no-reboot", "--skip-networking".
C1_SkipNetworkingPasses ==
    (Validated /\ SkipNetworking) =>
        /\ valid = "True"
        /\ uncaught = ""
        /\ arguments = << PyStr(<<Y("--"), W("no-reboot")>>),
                          PyStr(<<Y("--"), W("skip-networking")>>) >>

\* C1 happens: skip-networking is true over a configuration that names no
\* interface, sets half of the sgi IPv4 pair and has a dns that is no JSON,
\* and the handler ran.
C1_Witness ==
    /\ Validated /\ SkipNetworking
    /\ "sgi" \notin DOMAIN config
    /\ IsSet("sgi-ipv4-address") /\ ~IsSet("sgi-ipv4-gateway")
    /\ config["dns"] = Str("notjson")

\* the five rules of the validation, each on its own
SgiRule == _is_valid_interface(config, interfaces, "sgi", "eth0")

S1Rule == _is_valid_interface(config, interfaces, "s1", "eth1")

SgiAddressingRule == _is_valid_sgi_interface_addressing_configuration(config)

S1AddressingRule == _is_valid_s1_interface_addressing_configuration(config)

DnsRule == _are_valid_dns(config["dns"])

\* C2: with skip-networking false, validation returns true exactly when
\* all five rules pass; an sgi block with its four options empty and an s1
\* block with its two options empty pass.
C2_ValidIffAllRulesPass ==
    (Validated /\ ~SkipNetworking) =>
        /\ valid = "True" <=>
              /\ SgiRule.ok /\ S1Rule.ok
              /\ SgiAddressingRule.ok /\ S1AddressingRule.ok
              /\ DnsRule
        /\ (\A key \in {"sgi-ipv4-address", "sgi-ipv4-gateway",
                         "sgi-ipv6-address", "sgi-ipv6-gateway"} : ~IsSet(key))
              => SgiAddressingRule.ok
        /\ (~IsSet("s1-ipv4-address") /\ ~IsSet("s1-ipv6-address"))
              => S1AddressingRule.ok

\* C2 happens: a static configuration with every rule passing was found
\* valid.
C2_Witness ==
    /\ Validated /\ ~SkipNetworking /\ valid = "True"
    /\ IsSet("sgi-ipv4-address") /\ IsSet("s1-ipv4-address")

\* what a rule that failed logs: its one diagnostic
Diagnostic(rule) == IF rule.ok THEN <<>> ELSE rule.log

\* C3: with skip-networking false every one of the five rules is evaluated,
\* in the order sgi interface, s1 interface, sgi addressing, s1 addressing,
\* dns, and every rule that fails logs its diagnostic whatever the rules
\* before it did: the log is the diagnostics of the failing rules in that
\* order; with both interface names missing it starts with the sgi
\* diagnostic followed by the s1 diagnostic.
C3_EveryRuleEvaluatedInOrder ==
    (Validated /\ ~SkipNetworking) =>
        /\ log = Diagnostic(SgiRule) \o Diagnostic(S1Rule)
                    \o Diagnostic(SgiAddressingRule) \o Diagnostic(S1AddressingRule)
                    \o (IF DnsRule THEN <<>> ELSE <<Word("Invalid DNS configuration")>>)
        /\ \A rule \in {SgiRule, S1Rule, SgiAddressingRule, S1AddressingRule} :
              Len(Diagnostic(rule)) = IF rule.ok THEN 0 ELSE 1
        /\ (~IsSet("sgi") /\ ~IsSet("s1")) =>
              /\ Len(log) >= 2
              /\ log[1] = <<W("sgi"), W(" interface name is required")>>
              /\ log[2] = <<W("s1"), W(" interface name is required")>>

\* C3 happens: all five rules failed in one validation and five
\* diagnostics were logged.
C3_Witness ==
    /\ Validated /\ ~SkipNetworking
    /\ ~SgiRule.ok /\ ~S1Rule.ok /\ ~SgiAddressingRule.ok
    /\ ~S1AddressingRule.ok /\ ~DnsRule
    /\ Len(log) = 5

\* the diagnostics of the interface rule of an option
NameRequired(key) == <<W(key), W(" interface name is required")>>

NotFound(key) == config[key].text \o <<W(" interface not found")>>

\* C5: the interface rule of sgi (of s1) passes exactly when the name is
\* set and not empty and the host has an interface of that name or one
\* named eth0 (eth1); a missing name logs "<key> interface name is
\* required", a name without match logs "<name> interface not found".
C5_InterfaceRule ==
    (Validated /\ ~SkipNetworking) =>
        \A rule \in {[key |-> "sgi", new |-> "eth0"], [key |-> "s1", new |-> "eth1"]} :
            LET found == \/ config[rule.key].text \in interfaces
                         \/ Word(rule.new) \in interfaces
            IN  /\ ~IsSet(rule.key) <=> InLog(NameRequired(rule.key))
                /\ IsSet(rule.key) => (~found <=> InLog(NotFound(rule.key)))
                /\ valid = "True" => IsSet(rule.key) /\ found
                /\ Times(NameRequired(rule.key)) <= 1
                /\ IsSet(rule.key) => Times(NotFound(rule.key)) <= 1

\* C5 happens: the host has no interface of the configured s1 name but has
\* eth1, the sgi name is that of an interface while there is no eth0, and
\* both rules passed.
C5_Witness ==
    /\ Validated /\ ~SkipNetworking /\ valid = "True"
    /\ IsSet("s1") /\ config["s1"].text \notin interfaces
    /\ Word("eth1") \in interfaces
    /\ IsSet("sgi") /\ config["sgi"].text \in interfaces
    /\ Word("eth0") \notin interfaces

\* the configuration that sets every option well, but for the option key
\* that holds the text written from d
StaticWith(key, d) == [StaticConfig EXCEPT ![key] = PyStr(Written(d))]

\* what the claim accepts as the value of an address option
Accepted(key, d) ==
    CASE key \in {"sgi-ipv4-address", "s1-ipv4-address"} ->
            /\ FamilyOf(d.host) = 4
            /\ d.suffix.kind \in {"length", "dotted"}
            /\ d.suffix.n \in 0..31
      [] key \in {"sgi-ipv6-address", "s1-ipv6-address"} ->
            /\ FamilyOf(d.host) = 6
            /\ d.suffix.kind = "length"
            /\ d.suffix.n \in 0..127
      [] key = "sgi-ipv4-gateway" -> FamilyOf(d.host) = 4 /\ d.suffix.kind = "none"
      [] key = "sgi-ipv6-gateway" -> FamilyOf(d.host) = 6 /\ d.suffix.kind = "none"

\* the diagnostic of an address option that is not accepted
Invalid(key) ==
    CASE key = "sgi-ipv4-address" -> "Invalid IPv4 address and netmask for interface sgi"
      [] key = "sgi-ipv4-gateway" -> "Invalid IPv4 gateway for interface sgi"
      [] key = "sgi-ipv6-address" -> "Invalid IPv6 address and netmask for interface sgi"
      [] key = "sgi-ipv6-gateway" -> "Invalid IPv6 gateway for interface sgi"
      [] key = "s1-ipv4-address" -> "Invalid IPv4 address and netmask for interface s1"
      [] key = "s1-ipv6-address" -> "Invalid IPv6 address and netmask for interface s1"

\* C8: an IPv4 address option is accepted exactly when its text is an IPv4
\* address followed by a netmask of prefix length 0..31 (no netmask, /32
\* and an IPv6 text are refused); an IPv6 address option exactly when it is
\* an IPv6 address followed by a prefix length other than 128; a gateway
\* exactly when it is a bare address of its family.  What is refused logs
\* the diagnostic of its option.
C8_AddressAccepted ==
    Validated =>
        \A key \in AddressKeys, d \in AddressDescriptions :
            config = StaticWith(key, d) =>
                /\ valid = "True" <=> Accepted(key, d)
                /\ log = IF Accepted(key, d) THEN <<>> ELSE <<Word(Invalid(key))>>

\* C8 happens: "10.0.0.2/32" was refused as the sgi IPv4 address.
C8_Witness ==
    /\ Validated /\ valid = "False"
    /\ config = StaticWith("sgi-ipv4-address",
                           [host |-> "v4",
                            suffix |-> [kind |-> "length", text |-> Slash(32), n |-> 32]])

\* the sub-checks of the two addressing blocks: what violates each, and the
\* diagnostic of each
Text(key) == Get(config, key).text

AddressingSubChecks ==
    { [violated |-> IsSet("sgi-ipv4-address") # IsSet("sgi-ipv4-gateway"),
       message |-> "Both IPv4 address and gateway required for interface sgi"],
      [violated |-> IsSet("sgi-ipv6-address") # IsSet("sgi-ipv6-gateway"),
       message |-> "Both IPv6 address and gateway required for interface sgi"],
      [violated |-> IsSet("sgi-ipv6-address") /\ ~IsSet("sgi-ipv4-address"),
       message |-> "Pure IPv6 configuration is not supported for interface sgi"],
      [violated |-> /\ IsSet("sgi-ipv4-address")
                    /\ ~_is_valid_ipv4_address(Text("sgi-ipv4-address")),
       message |-> Invalid("sgi-ipv4-address")],
      [violated |-> /\ IsSet("sgi-ipv4-gateway")
                    /\ ~_is_valid_ipv4_gateway(Text("sgi-ipv4-gateway")),
       message |-> Invalid("sgi-ipv4-gateway")],
      [violated |-> /\ IsSet("sgi-ipv6-address")
                    /\ ~_is_valid_ipv6_address(Text("sgi-ipv6-address")),
       message |-> Invalid("sgi-ipv6-address")],
      [violated |-> /\ IsSet("sgi-ipv6-gateway")
                    /\ ~_is_valid_ipv6_gateway(Text("sgi-ipv6-gateway")),
       message |-> Invalid("sgi-ipv6-gateway")],
      [violated |-> IsSet("s1-ipv6-address") /\ ~IsSet("s1-ipv4-address"),
       message |-> "Pure IPv6 configuration is not supported for interface s1"],
      [violated |-> /\ IsSet("s1-ipv4-address")
                    /\ ~_is_valid_ipv4_address(Text("s1-ipv4-address")),
       message |-> Invalid("s1-ipv4-address")],
      [violated |-> /\ IsSet("s1-ipv6-address")
                    /\ ~_is_valid_ipv6_address(Text("s1-ipv6-address")),
       message |-> Invalid("s1-ipv6-address")] }

\* C4: every violated sub-check of the sgi and s1 addressing blocks logs
\* its one diagnostic in the validation, also when other sub-checks of the
\* block are violated with it.
C4_EverySubCheckLogged ==
    (Validated /\ ~SkipNetworking) =>
        \A check \in AddressingSubChecks :
            Times(Word(check.message)) = IF check.violated THEN 1 ELSE 0

\* C6: with exactly one of the sgi IPv4 address and gateway set the
\* validation fails and logs the IPv4 "both required" diagnostic, and with
\* exactly one of the sgi IPv6 address and gateway set it fails and logs
\* the IPv6 one, whatever the other sgi options hold.
C6_BothRequired ==
    (Validated /\ ~SkipNetworking) =>
        /\ IsSet("sgi-ipv4-address") # IsSet("sgi-ipv4-gateway") =>
              /\ valid = "False"
              /\ InLog(Word("Both IPv4 address and gateway required for interface sgi"))
        /\ IsSet("sgi-ipv6-address") # IsSet("sgi-ipv6-gateway") =>
              /\ valid = "False"
              /\ InLog(Word("Both IPv6 address and gateway required for interface sgi"))

\* C7: for sgi and for s1, an IPv6 address set while the IPv4 address is
\* empty fails the validation with the "pure IPv6" diagnostic of the
\* interface.
C7_PureIpv6Refused ==
    (Validated /\ ~SkipNetworking) =>
        \A name \in {"sgi", "s1"} :
            (IsSet(name \o "-ipv6-address") /\ ~IsSet(name \o "-ipv4-address")) =>
                /\ valid = "False"
                /\ InLog(<<W("Pure IPv6 configuration is not supported for interface "
                              \o name)>>)

\* a dns text the claim accepts: JSON, a list, not empty, every element the
\* text of an IPv4 or IPv6 address
DnsOfAddresses(text) ==
    LET dns == json_loads(text)
    IN  /\ dns.ok /\ dns.val.type = "list" /\ dns.val.items # <<>>
        /\ \A i \in 1..Len(dns.val.items) :
              /\ dns.val.items[i].type = "str"
              /\ ip_address(dns.val.items[i]) \in {4, 6}

\* C9: the dns rule passes exactly when dns is the JSON text of a list,
\* not empty, of IPv4 and IPv6 addresses; otherwise the validation fails
\* and logs "Invalid DNS configuration" once.
C9_DnsRule ==
    (Validated /\ ~SkipNetworking) =>
        /\ DnsOfAddresses(config["dns"].text) =>
              ~InLog(Word("Invalid DNS configuration"))
        /\ ~DnsOfAddresses(config["dns"].text) =>
              /\ valid = "False"
              /\ Times(Word("Invalid DNS configuration")) = 1

\* "--<key>", <value> of every option of keys that is set and not empty
RECURSIVE PairsOfSet(_)
PairsOfSet(keys) ==
    IF keys = <<>> THEN <<>>
    ELSE (IF IsSet(Head(keys))
          THEN <<PyStr(<<Y("--"), W(Head(keys))>>), config[Head(keys)]>>
          ELSE <<>>) \o PairsOfSet(Tail(keys))

\* C10: for a valid configuration with skip-networking false the install
\* arguments are "--no-reboot", "--dns", the elements of the dns list in
\* their order, and then "--<key>", <value> for every other option that is
\* not empty, in the order of the options; an empty option adds nothing.
C10_InstallArguments ==
    (Validated /\ ~SkipNetworking /\ valid = "True" /\ uncaught = "") =>
        arguments = << PyStr(<<Y("--"), W("no-reboot")>>), PyStr(<<Y("--"), W("dns")>>) >>
                        \o json_loads(config["dns"].text).val.items
                        \o PairsOfSet(SubSeq(ConfigKeys, 3, Len(ConfigKeys)))

\* the last run of the handler built the install arguments
Built == valid = "True" /\ uncaught # "JSONDecodeError" /\ arguments # <<>>

\* C11: building the install arguments removes no key from and changes no
\* value of the stored configuration, skip-networking and dns included, and
\* a build that follows a build over the same configuration, validations in
\* between or not, returns the same arguments.
C11_BuilderLeavesConfiguration ==
    [][Install =>
        /\ config' = config
        /\ {"skip-networking", "dns"} \subseteq DOMAIN config'
        /\ (Built /\ Built') => arguments' = arguments]_vars

\* C11 happens: the arguments were built from a configuration with a dns
\* list and interface names, which still holds skip-networking and dns.
C11_Witness ==
    /\ Built /\ ~SkipNetworking
    /\ Len(arguments) >= 7
    /\ {"skip-networking", "dns", "sgi", "s1"} \subseteq DOMAIN config

\* the run started a command whose first word is word
Started(word) == \E i \in 1..Len(calls) : calls[i][1] = Str(word)

\* C12: when the handler runs with magmad not enabled over a configuration
\* that fails the validation, the status ends as Blocked("Configuration is
\* invalid. Check logs for details") and neither the install script nor the
\* reboot is started in that run.
C12_InvalidConfigurationBlocks ==
    (Validated /\ ~_is_configuration_valid(config, interfaces).ok) =>
        /\ status = [name |-> "blocked",
                     message |-> "Configuration is invalid. Check logs for details"]
        /\ ~Started("magma-access-gateway.install")
        /\ ~Started("shutdown")
        /\ returncodes = <<>>

\* C12 happens: a configuration whose only flaw is a dns that is no JSON
\* was refused, after the snap was installed.
C12_Witness ==
    /\ Validated /\ valid = "False"
    /\ log = <<Word("Invalid DNS configuration")>>
    /\ Started("snap")

\* C13: when the install script exits with a code other than 0 the handler
\* ends with Blocked("Installation script failed. See logs for details"),
\* starts no reboot and does not defer the event.
C13_FailedScriptBlocks ==
    (returncodes # <<>> /\ returncodes[1] # 0) =>
        /\ status = [name |-> "blocked",
                     message |-> "Installation script failed. See logs for details"]
        /\ ~Started("shutdown")
        /\ ~deferred
        /\ uncaught = ""

\* C13 happens: the install script ran and was killed.
C13_Witness ==
    /\ returncodes = <<-9>>
    /\ Started("magma-access-gateway.install")

\* a step of the handler of the install and config-changed events
OnInstall ==
    \/ Install
    \/ \E i \in 1..Len(ConfigKeys) :
          \/ ConfigReset(ConfigKeys[i])
          \/ \E value \in Values(ConfigKeys[i]) : ConfigChanged(ConfigKeys[i], value)

\* C14: when the handler runs while magmad is enabled it starts nothing but
\* the enabled check, validates nothing and leaves the status as it was,
\* whatever the configuration is or has become.
C14_EnabledDoesNothing ==
    [][(OnInstall /\ magmad_enabled) =>
        /\ status' = status
        /\ calls' = << <<Str("systemctl"), Str("is-enabled"), Str("magma@magmad")>> >>
        /\ valid' = "n/a" /\ log' = <<>> /\ arguments' = <<>>
        /\ returncodes' = <<>> /\ ~deferred']_vars

\* C14 happens: with magmad enabled after an install that scheduled the
\* reboot, the handler ran over a configuration that has become invalid and
\* the status is still the one of the install.
C14_Witness ==
    /\ magmad_enabled /\ ~Validated
    /\ calls = <<IsEnabledCommand>>
    /\ ~_is_configuration_valid(config, interfaces).ok
    /\ status = [name |-> "maintenance", message |-> "Rebooting to apply changes"]

\* the last handler run asked systemctl whether magma@magmad is active
CheckedActive == calls # <<>> /\ calls[Len(calls)] = IsActiveCommand

\* C15: a run of the start handler or of the orchestrator-available handler
\* sets the status to Active only when its check that the magma service is
\* active succeeded; when the check fails the run defers the event and does
\* not set Active, and the start handler leaves the status as it was
C15_ActiveOnlyWhenServiceActive ==
    [][(Start \/ OrchestratorAvailable) =>
          /\ (status' = ActiveStatus /\ status # ActiveStatus) =>
                CheckedActive' /\ magma_active' /\ ~deferred'
          /\ (CheckedActive' /\ magma_active') =>
                status' = ActiveStatus /\ ~deferred'
          /\ (CheckedActive' /\ ~magma_active') =>
                /\ deferred'
                /\ status' \in {status, MaintenanceStatus(
                                   "Restarting Access Gateway to apply changes")}
          /\ (Start /\ ~magma_active) => deferred' /\ status' = status
          /\ Start => CheckedActive'
          /\ deferred' => CheckedActive' /\ ~magma_active']_vars

\* the start handler deferred, the service being inactive, on a host that
\* holds files of the gateway
C15_Witness ==
    /\ deferred
    /\ calls = <<IsActiveCommand>>
    /\ ~magma_active
    /\ status # ActiveStatus
    /\ DOMAIN files # {}

\* the last action started the command command
Ran1(command) == \E i \in 1..Len(calls) : calls[i] = command

\* C16: the get-access-gateway-secrets action run while the magma service is
\* not active fails with "Magma is not running! Please start Magma and try
\* again.", never runs show_gateway_info.py and sets no results
C16_SecretsNeedRunningMagma ==
    [][(~magma_active /\ GetAccessGatewaySecrets) =>
          /\ failure' = "Magma is not running! Please start Magma and try again."
          /\ results' = {}
          /\ gateway_info' = <<>>
          /\ calls' = <<IsActiveCommand>>
          /\ uncaught' = ""]_vars

\* the action failed for that reason on a unit whose service is not active
C16_Witness ==
    /\ failure = "Magma is not running! Please start Magma and try again."
    /\ calls = <<IsActiveCommand>>
    /\ results = {}
    /\ ~magma_active

\* the last action was get-access-gateway-secrets and show_gateway_info.py
\* ran in it and printed its output
Printed == gateway_info # <<>> /\ gateway_info[1].exc = ""

\* the lines of that output that are neither empty nor dashes
PrintedLines == GatewayInfo(gateway_info[1].stdout)

Labels == {HARDWARE_ID_LABEL, CHALLENGE_KEY_LABEL}

\* label is a line of the output and the line after it is a value
HasValue(label) ==
    \E i \in 1..(Len(PrintedLines) - 1) :
        /\ PrintedLines[i] = label
        /\ \A j \in 1..(i - 1) : PrintedLines[j] # label
        /\ PrintedLines[i + 1] \notin Labels

\* the value after label
ValueOf(label) == PrintedLines[Index(PrintedLines, label) + 1]

\* C17: on a well-formed output, each label followed by its value once the
\* empty lines and the dashes are dropped, the action sets the results
\* "hardware-id" and "challange-key" to the two values, those two entries
\* only, and does not fail
C17_SecretsReturned ==
    (Printed /\ HasValue(HARDWARE_ID_LABEL) /\ HasValue(CHALLENGE_KEY_LABEL)) =>
        /\ results = { <<"hardware-id", ValueOf(HARDWARE_ID_LABEL)>>,
                       <<"challange-key", ValueOf(CHALLENGE_KEY_LABEL)>> }
        /\ failure = ""
        /\ uncaught = ""

\* C18: on an output in which a label is absent or has no value after it,
\* the action fails with "Failed to get Magma Access Gateway secrets!",
\* sets no results and no exception escapes
C18_MalformedOutputFails ==
    (Printed /\ ~(HasValue(HARDWARE_ID_LABEL) /\ HasValue(CHALLENGE_KEY_LABEL))) =>
        /\ failure = "Failed to get Magma Access Gateway secrets!"
        /\ results = {}
        /\ uncaught = ""

\* C19: the post-install-checks action run while the magma service is not
\* active does not start the post-install tool and fails with "Magma is not
\* running! Please start Magma and try again."
C19_ChecksNeedRunningMagma ==
    [][(~magma_active /\ PostInstallChecks) =>
          /\ failure' = "Magma is not running! Please start Magma and try again."
          /\ \A i \in 1..Len(calls') : calls'[i] # PostInstallCommand
          /\ post_install_checks' = <<>>]_vars

\* C20: the post-install-checks action sets "post-install-checks-output" to
\* the success message when the tool's exit code is 0 and to the failure
\* message for every other exit code, whatever the tool printed, and an
\* exception of the tool's run makes the action fail and does not escape
C20_ResultByExitCode ==
    post_install_checks # <<>> =>
        /\ uncaught = ""
        /\ Ran1(PostInstallCommand)
        /\ post_install_checks[1].exc = "" =>
              /\ failure = ""
              /\ results = { <<"post-install-checks-output",
                               IF post_install_checks[1].returncode = 0
                               THEN successful_msg ELSE failed_msg>> }
        /\ post_install_checks[1].exc # "" =>
              /\ failure # ""
              /\ results = {}

\* the tool printed that the checks passed and was killed: the failure message
C20_Witness ==
    /\ post_install_checks # <<>>
    /\ post_install_checks[1].returncode = -9
    /\ post_install_checks[1].stdout = Line(Word("All checks passed"))
    /\ results = {<<"post-install-checks-output", failed_msg>>}

\* the files _install_configurations installs and the contents the
\* announcements ask for
Requests ==
    UNION { { <<ROOT_CA_PATH, event.root_ca_certificate>>,
              <<CERT_CERTIFIER_CERT, event.certifier_pem_certificate>>,
              <<CONFIG_PATH, _generate_config(event)>> } : event \in Announcements }

\* the host as a handler finds it
Host == Fs(dirs, files, "", FALSE, <<>>)

\* install_file(file, content) on the host
Once(request) == install_file(Host, request[1], request[2])

\* install_file(file, content) a second time
Twice(request) ==
    install_file(Fs(Once(request).dirs, Once(request).files, "", FALSE, <<>>),
                 request[1], request[2])

\* C21: install_file writes the file and returns True exactly when the
\* file is absent or holds another content, returns False and leaves the
\* file as it is when it holds the content, in every case the file holds the
\* content afterwards, and a second install_file of it returns False
C21_WrittenOnlyWhenDifferent ==
    \A request \in Requests :
        /\ Once(request).exc = ""
        /\ Once(request).changed <=>
              (request[1] \notin DOMAIN files \/ files[request[1]] # request[2])
        /\ Once(request).changed <=> Once(request).ops # <<>>
        /\ ~Once(request).changed => Once(request).files = files
        /\ request[1] \in DOMAIN Once(request).files
        /\ Once(request).files[request[1]] = request[2]
        /\ ~Twice(request).changed

CredentialFiles == {AgwCertFiles[i] : i \in 1..Len(AgwCertFiles)}

\* the place of the step op in the last run of the orchestrator handler, 0
\* when the run did not take it
Place(done, op) == Index(done, op)

\* in done, the step first comes, and before the step second if that is taken
Before(done, first, second) ==
    /\ Place(done, first) > 0
    /\ Place(done, second) > 0 => Place(done, first) < Place(done, second)

\* C22: when the announced certifier certificate differs from the certifier
\* file on the host, the credential files that exist are deleted, before the
\* new certifier file is written and before the gateway is restarted, and a
\* missing credential file is no error; when there is no certifier file or
\* it holds the announced certificate, no credential file is deleted
C22_StaleCredentialsRemoved ==
    [][\A event \in Announcements :
          _on_orchestrator_available(event) =>
             IF /\ CERT_CERTIFIER_CERT \in DOMAIN files
                /\ files[CERT_CERTIFIER_CERT] # event.certifier_pem_certificate
             THEN /\ uncaught' = ""
                  /\ CredentialFiles \cap DOMAIN files' = {}
                  /\ Place(ops', Op("write", CERT_CERTIFIER_CERT)) > 0
                  /\ Place(ops', Op("stop", "magma@*")) > 0
                  /\ \A file \in CredentialFiles \cap DOMAIN files :
                        /\ Before(ops', Op("unlink", file), Op("write", CERT_CERTIFIER_CERT))
                        /\ Before(ops', Op("unlink", file), Op("stop", "magma@*"))
                        /\ Before(ops', Op("unlink", file), Op("start", "magma@magmad"))
             ELSE /\ \A file \in CredentialFiles : Place(ops', Op("unlink", file)) = 0
                  /\ \A file \in CredentialFiles :
                        /\ file \in DOMAIN files <=> file \in DOMAIN files'
                        /\ file \in DOMAIN files => files'[file] = files[file]]_vars

\* a new certifier certificate came to a host whose challenge key was
\* missing: the two other credential files were deleted, then the certifier
\* file written and the gateway restarted
C22_Witness ==
    ops = << Op("unlink", AgwCertFiles[1]), Op("unlink", AgwCertFiles[2]),
             Op("write", CERT_CERTIFIER_CERT),
             Op("stop", "magma@*"), Op("start", "magma@magmad") >>

\* C23: on the leader, when eth1 is not there or has no IPv4 address, the
\* lte-core handler publishes nothing, sets the status Waiting("Waiting for
\* the MME interface to be ready") and defers the event, and no exception
\* escapes; when eth1 has an IPv4 address, the handler publishes it and sets
\* the status Active; on another unit it publishes nothing and leaves the
\* status
C23_AddressPublishedWhenReady ==
    [][LteCoreRelationJoined =>
          /\ (leader /\ (~eth1.present \/ eth1.inet = <<>>)) =>
                /\ lte_core' = lte_core
                /\ status' = WaitingStatus("Waiting for the MME interface to be ready")
                /\ deferred'
                /\ uncaught' = ""
          /\ (leader /\ eth1.present /\ eth1.inet # <<>>) =>
                /\ lte_core' = <<eth1.inet[1]>>
                /\ status' = ActiveStatus
                /\ ~deferred'
                /\ uncaught' = ""
          /\ ~leader =>
                /\ lte_core' = lte_core
                /\ status' = status
                /\ ~deferred'
                /\ uncaught' = ""]_vars

\* the two ways _on_install ends blocked
InstallBlocked ==
    { BlockedStatus("Configuration is invalid. Check logs for details"),
      BlockedStatus("Installation script failed. See logs for details") }

\* C24: on a unit that _on_install left blocked and whose magmad is still
\* not enabled, the next install or config-changed event runs the handler
\* from the snap install again, and when the configuration is then valid and
\* the install script exits with 0 the status becomes Maintenance("Rebooting
\* to apply changes") and the reboot is started
C24_BlockedInstallIsRetried ==
    [][(OnInstall /\ status \in InstallBlocked /\ ~magmad_enabled) =>
          /\ Len(calls') >= 2
          /\ SubSeq(calls', 1, 2) = <<IsEnabledCommand, SnapInstallCommand>>
          /\ valid' \in {"True", "False"}
          /\ valid' = "True" <=> _is_configuration_valid(config', interfaces).ok
          /\ returncodes' = <<0>> =>
                /\ valid' = "True"
                /\ status' = MaintenanceStatus("Rebooting to apply changes")
                /\ calls'[Len(calls')] = RebootCommand]_vars

\* a unit blocked over its configuration was configured anew, statically,
\* and its next run of the handler started the reboot
C24_Witness ==
    /\ status_found = BlockedStatus("Configuration is invalid. Check logs for details")
    /\ status = MaintenanceStatus("Rebooting to apply changes")
    /\ returncodes = <<0>>
    /\ ~SkipNetworking
    /\ Started("shutdown")

\* the commands of a run of _on_install that goes all the way, in order
InstallSequence ==
    <<IsEnabledCommand, SnapInstallCommand, InstallCommand(arguments), RebootCommand>>

\* C25: a run of _on_install starts its commands in the order enabled check,
\* snap install, install script, reboot: the snap install runs before the
\* validation, so also when the configuration is invalid; the install script
\* runs only when the validation passed; the reboot is started exactly when
\* the script exited with 0; and that run alone sets Maintenance("Rebooting
\* to apply changes")
C25_InstallOrder ==
    calls # <<>> =>
        /\ Len(calls) <= 4
        /\ calls = SubSeq(InstallSequence, 1, Len(calls))
        /\ Len(calls) >= 2 <=> Validated
        /\ valid = "False" => Len(calls) = 2
        /\ Len(calls) >= 3 <=> returncodes # <<>>
        /\ Len(calls) >= 3 => valid = "True"
        /\ Len(calls) = 4 <=> returncodes = <<0>>
        /\ Validated =>
              (status = MaintenanceStatus("Rebooting to apply changes") <=> Len(calls) = 4)

\* a run went all the way on a unit that was blocked over a failed script
C25_Witness ==
    /\ calls = InstallSequence
    /\ status_found = BlockedStatus("Installation script failed. See logs for details")
    /\ arguments # <<>>

\* the three files _install_configurations installs for the announcement
\* event, each with the content asked for
Wanted(event) ==
    { <<ROOT_CA_PATH, event.root_ca_certificate>>,
      <<CERT_CERTIFIER_CERT, event.certifier_pem_certificate>>,
      <<CONFIG_PATH, _generate_config(event)>> }

\* the file of the request is missing or holds another content
Differs(fl, request) == request[1] \notin DOMAIN fl \/ fl[request[1]] # request[2]

Restarting == MaintenanceStatus("Restarting Access Gateway to apply changes")

\* the last run of the orchestrator handler restarted the gateway: it
\* stopped every magma service, then started magmad
Restarted(done, cl) ==
    /\ Before(done, Op("stop", "magma@*"), Op("start", "magma@magmad"))
    /\ Place(done, Op("start", "magma@magmad")) > 0
    /\ Len(cl) >= 2 /\ SubSeq(cl, 1, 2) = RestartCommands

NotRestarted(done, cl) ==
    /\ Place(done, Op("stop", "magma@*")) = 0
    /\ Place(done, Op("start", "magma@magmad")) = 0
    /\ \A i \in 1..Len(cl) : cl[i] \notin {RestartCommands[1], RestartCommands[2]}

\* C26: the orchestrator handler restarts the gateway, stopping every magma
\* service and then starting magmad, exactly when one of the three files
\* held another content than announced; the three files all hold the
\* announced content after the run; and the status is set to
\* Maintenance("Restarting Access Gateway to apply changes") only by a run
\* that restarts
C26_RestartOnlyWhenChanged ==
    [][\A event \in Announcements :
          _on_orchestrator_available(event) =>
             /\ IF \E request \in Wanted(event) : Differs(files, request)
                THEN Restarted(ops', calls')
                ELSE NotRestarted(ops', calls')
             /\ \A request \in Wanted(event) : ~Differs(files', request)
             /\ (status' = Restarting /\ status # Restarting) => Restarted(ops', calls')
             /\ NotRestarted(ops', calls') => status' \in {status, ActiveStatus}]_vars

\* C27: a run of the orchestrator handler for the announcement its last
\* complete run installed writes no file, makes no directory, deletes no
\* credential file and does not restart the gateway; it asks whether the
\* service is active and sets Active, or defers and leaves the status
C27_RedeliveryIsIdempotent ==
    [][\A event \in Announcements :
          (announced = <<event>> /\ _on_orchestrator_available(event)) =>
             /\ files' = files
             /\ dirs' = dirs
             /\ ops' = <<>>
             /\ calls' = <<IsActiveCommand>>
             /\ magma_active' = magma_active
             /\ announced' = announced
             /\ uncaught' = ""
             /\ IF magma_active
                THEN status' = ActiveStatus /\ ~deferred'
                ELSE status' = status /\ deferred']_vars

\* the announcement was delivered again after a restart that had not made
\* the service active, and the event was deferred again
C27_Witness ==
    /\ announced # <<>>
    /\ ops = <<>>
    /\ calls = <<IsActiveCommand>>
    /\ deferred
    /\ status = Restarting
    /\ \A request \in Wanted(announced[1]) : ~Differs(files, request)

====
